---- MODULE Spec2Model ----
(***************************************************************************)
(* Model of the roc-income-tracker spreadsheet scripts.                    *)
(*                                                                         *)
(* The Transactions sheet is a log of Buy / Sell / Dividend rows.          *)
(* updateHistoricalTrancheMetrics rebuilds the metric columns of that      *)
(* sheet (WkStart, TrID, CostBasis, DistPS, IncPS, RocPS, Inc, ROCAmt,     *)
(* TotShr, RemShr, TStat); buildTrancheTracker, buildIncomeTracker and     *)
(* buildTrancheState read the rebuilt sheet and write the TrancheTracker,  *)
(* IncomeTracker and TrancheState sheets.  Each script looks its columns   *)
(* up by header name and throws when one is missing.  checkPriceUpdates    *)
(* stamps the rows of the MarketData sheet whose price has changed.        *)
(*                                                                         *)
(* Spec is the general log of two symbols; SpecBasis, SpecIncome,          *)
(* SpecGaps, SpecRerun and SpecSchema run the same scripts on logs with    *)
(* zero-cost lots, with weeks of 2023-2025, with an empty row, in two      *)
(* rounds, and with a renamed column; SpecGroups has several dividends in  *)
(* one week, SpecTaxable has Inc cells typed in by the user, SpecSales     *)
(* several Sells of one lot, SpecWeek calls getWeekStart on every day of   *)
(* two years and SpecPrices edits and checks prices.                       *)
(*                                                                         *)
(* Sheet numbers are JavaScript doubles; the model keeps them as exact     *)
(* rationals <<n, d>> (d > 0, lowest terms), so that a quotient such as    *)
(* IncPS = Inc / TotShr is a value and not a rounding of it.               *)
(*                                                                         *)
(* Each script is an entry point of its own and one action of the model; a *)
(* run that throws is a step too, and leaves what the script had written   *)
(* before the throw.                                                       *)
(*                                                                         *)
(* A Date is an instant, counted in hours.  The scripts read it in two     *)
(* time zones: a date cell is midnight of the spreadsheet's zone and       *)
(* Utilities.formatDate is given that zone, while getDay, setDate and      *)
(* getFullYear answer in the zone of the script project.  Both zones are   *)
(* variables, set by SetSpreadsheetTimeZone and SetTimeZone.               *)
(*                                                                         *)
(* The repository holds several generations of the scripts.                *)
(* updateHistoricalTrancheMetrics.js declares its function twice and       *)
(* part_000 declares buildIncomeTracker twice more, for older column names *)
(* (Symbol / Shares / Dividend / TrancheIDOverride).  The scripts of the   *)
(* model are the ones that read Sym / Shr / Dist / TrID: the first         *)
(* declaration of updateHistoricalTrancheMetrics and the                   *)
(* buildIncomeTracker of part_001, next to buildTrancheTracker and         *)
(* buildTrancheState, which read the columns they write.  The older        *)
(* declarations are the actions UpdateHistoricalTrancheMetricsOldSchema    *)
(* and BuildIncomeTrackerOldSchema.  On the sheet of this model the first  *)
(* throws; the second finds none of its columns, and either throws or      *)
(* writes one row dated at the epoch, as Utilities.formatDate either       *)
(* rejects the invalid Date or formats it.                                 *)
(***************************************************************************)
EXTENDS Integers, Sequences, FiniteSets, TLC

\* ------------------------------------------------------------- bounds
MaxRows   == 3      \* rows typed into the Transactions sheet
MaxDate   == 2      \* distinct calendar days used by the rows
MaxShares == 2      \* largest Shr value of a Buy or Sell row
MaxPrice  == 1      \* largest Price value of a Buy or Sell row

\* ------------------------------------------------------------ numbers
Abs(x) == IF x < 0 THEN -x ELSE x

RECURSIVE GCD(_, _)
GCD(a, b) == IF b = 0 THEN a ELSE GCD(b, a % b)

\* the number n / d (d # 0) in lowest terms with a positive denominator
Rat(n, d) ==
  LET g == GCD(Abs(n), Abs(d))
      s == IF d < 0 THEN -1 ELSE 1
  IN  <<(s * n) \div g, (s * d) \div g>>

Zero == <<0, 1>>
RInt(k) == <<k, 1>>
RAdd(a, b) == Rat(a[1] * b[2] + b[1] * a[2], a[2] * b[2])
RSub(a, b) == Rat(a[1] * b[2] - b[1] * a[2], a[2] * b[2])
RMul(a, b) == Rat(a[1] * b[1], a[2] * b[2])
\* a / b for b # 0 (every division of the scripts is guarded)
RDiv(a, b) == Rat(a[1] * b[2], a[2] * b[1])
RPos(a) == a[1] > 0

RECURSIVE SumOver(_, _)
\* sum of the integers f[k], k \in S
SumOver(f, S) ==
  IF S = {} THEN 0
  ELSE LET k == CHOOSE x \in S : TRUE IN f[k] + SumOver(f, S \ {k})

RECURSIVE RSumOver(_, _)
\* sum of the rationals f[k], k \in S
RSumOver(f, S) ==
  IF S = {} THEN Zero
  ELSE LET k == CHOOSE x \in S : TRUE IN RAdd(f[k], RSumOver(f, S \ {k}))

\* -------------------------------------------------------------- dates
\* A Date cell is a day number: day 1 is Monday 2024-01-01.  NoDate is a
\* cell that holds no valid Date object.
NoDate == 0
ValidDate(d) == d # NoDate

\* the calendar of day numbers 1..731: the years 2024 (a leap year) and
\* 2025; day 0 and the days before it belong to 2023
DaysIn2024 == 366

YearOf(d) ==
  IF d <= 0 THEN 2023 ELSE IF d <= DaysIn2024 THEN 2024 ELSE 2025

DayOfYear(d) == IF d <= DaysIn2024 THEN d ELSE d - DaysIn2024

MonthLengths(y) ==
  <<31, IF y = 2024 THEN 29 ELSE 28, 31, 30, 31, 30, 31, 31, 30, 31, 30, 31>>

\* <<month, day of month>> of the n-th day of year y, counting from month m
RECURSIVE MonthDay(_, _, _)
MonthDay(n, y, m) ==
  IF n <= MonthLengths(y)[m] THEN <<m, n>>
  ELSE MonthDay(n - MonthLengths(y)[m], y, m + 1)

\* Utilities.formatDate(d, tz, "yyMMdd"), read as a number
FormatYYMMDD(d) ==
  LET md == MonthDay(DayOfYear(d), YearOf(d), 1)
  IN  (YearOf(d) % 100) * 10000 + md[1] * 100 + md[2]

\* the day of the week of day d: Sun = 0 .. Sat = 6
GetDay(d) == d % 7

\* ------------------------------------------------------------ lot ids
\* A tranche id is a string.  The model keeps it parsed into the three
\* parts SYMBOL _ yyMMdd _ LETTER; a free-form override is a first part
\* with no date and no letter.  NoId is the empty cell.
Letters == <<"A", "B", "C", "D", "E", "F", "G", "H", "I", "J", "K", "L", "M",
             "N", "O", "P", "Q", "R", "S", "T", "U", "V", "W", "X", "Y", "Z">>

HexDigits ==
  <<"0", "1", "2", "3", "4", "5", "6", "7", "8", "9",
    "A", "B", "C", "D", "E", "F">>

\* a character that a string of the model cannot hold is kept as its
\* escape: a backslash, u and the four hex digits of its code unit
Escaped(c) ==
  "\\u" \o HexDigits[((c \div 4096) % 16) + 1]
        \o HexDigits[((c \div 256) % 16) + 1]
        \o HexDigits[((c \div 16) % 16) + 1]
        \o HexDigits[(c % 16) + 1]

FirstAscii == 32

CodeOfA == 65

GraveAccent == 96

CodeUnits == 65536

\* the characters of the code units 32 .. 126, in the order of their codes
Ascii ==
  <<" ", "!", "\"", "#", "$", "%", "&", "'", "(", ")", "*", "+", ",", "-",
    ".", "/", "0", "1", "2", "3", "4", "5", "6", "7", "8", "9", ":", ";",
    "<", "=", ">", "?", "@">>
  \o Letters \o
  <<"[", "\\", "]", "^", "_", Escaped(GraveAccent),
    "a", "b", "c", "d", "e", "f", "g", "h", "i", "j", "k", "l", "m",
    "n", "o", "p", "q", "r", "s", "t", "u", "v", "w", "x", "y", "z",
    "{", "|", "}", "~">>

\* String.fromCharCode(c): the code is taken modulo 2^16
FromCharCode(c) ==
  LET u == c % CodeUnits
  IN  IF u >= FirstAscii /\ u < FirstAscii + Len(Ascii)
      THEN Ascii[u - FirstAscii + 1]
      ELSE Escaped(u)

\* String.fromCharCode(65 + cnt): A .. Z for the first 26 rows of a key,
\* then the characters that follow Z: [ and \ and ] and so on
LetterOf(cnt) == FromCharCode(CodeOfA + cnt)

NoId == <<"", 0, "">>
GenId(sym, ymd, cnt) == <<sym, ymd, LetterOf(cnt)>>

\* --------------------------------------------------------- input rows
Syms   == {"ABC", "XYZ"}
Dates  == 1..MaxDate
Shares == 1..MaxShares
Prices == 1..MaxPrice
\* Dist cell of a Dividend row (the total distribution)
Dists  == {4}
\* RocPct cell of a Dividend row
Pcts   == {Zero, Rat(1, 2)}
\* TIDOverride cell: empty, or the id the first no-override ABC row of
\* the first day gets
Overrides == {NoId, GenId("ABC", FormatYYMMDD(1), 0)}

Row(t, d, s, sh, px, di, pc, ov) ==
  [type |-> t, date |-> d, sym |-> s, shr |-> sh, price |-> px,
   dist |-> di, pct |-> pc, ov |-> ov]

BuyRows  == {Row("buy", d, s, sh, px, 0, Zero, ov) :
               d \in Dates, s \in Syms, sh \in Shares, px \in Prices,
               ov \in Overrides}
SellRows == {Row("sell", d, s, sh, px, 0, Zero, ov) :
               d \in Dates, s \in Syms, sh \in Shares, px \in Prices,
               ov \in Overrides}
DivRows  == {Row("dividend", d, s, 0, 0, di, pc, NoId) :
               d \in Dates, s \in Syms, di \in Dists, pc \in Pcts}
LedgerRows == BuyRows \cup SellRows \cup DivRows

\* -------------------------------------------------------------- state
VARIABLES
  raw,       \* Transactions sheet, input columns: the typed rows
  pc,        \* "edit" while rows are typed, "ready" once the metrics exist
  metrics,   \* Transactions sheet, rebuilt columns: one record per row
  tracker,   \* TrancheTracker sheet: sequence of allocation rows
  stateOut,  \* TrancheState sheet: lot id -> output row
  rocCredit, \* per Dividend row index: lot id -> the remaining shares
             \* the row used for the lot and the ROC it credited to it
  built,     \* the output sheets written so far
  headers,   \* Transactions sheet, row 1: the column names, left to right
  today,     \* the day on which the scripts run
  unallocated, \* the Dividend rows buildTrancheState reported as paid to no lot
  lotTrace,  \* buildTrancheState's maps before row 1 (index 0) and after
             \* each row of its replay
  income,    \* IncomeTracker sheet: sequence of (week, symbol) rows
  runs,      \* how many scripts the user has run in rounds of four
  weekCall,  \* the last call of getWeekStart: the argument as it was
             \* given, the argument object after the call, the result
  market,    \* MarketData sheet: per row the cells CurrentPrice (column
             \* B), LastUpdate (column C) and the stored price (column AA)
  clock,     \* the instant `new Date()` last returned to checkPriceUpdates
  zone,      \* the time zone of the script project, in which getDay,
             \* setDate and getFullYear answer; the repository has no
             \* manifest to fix it
  sheetZone  \* the time zone of the spreadsheet, which the scripts hand to
             \* Utilities.formatDate and in which a date cell is midnight

vars == <<raw, pc, metrics, tracker, stateOut, rocCredit, built,
          headers, today, unallocated, lotTrace, income, runs,
          weekCall, market, clock, zone, sheetZone>>

\* ------------------------------------------------- time zones
\* A Date object is an instant, counted in hours: instant 24 * d is
\* midnight UTC at the start of day d.  One zone at UTC and one west of it
\* stand for all zones.
HoursPerDay == 24

Zones == {"Etc/UTC", "America/New_York"}

WestOfUtc == {"America/New_York"}

\* the hours of a zone east of UTC, in winter and in summer
ZoneOffsets(z) == IF z \in WestOfUtc THEN <<-5, -4>> ELSE <<0, 0>>

\* summer time in America/New_York, as <<day, hour>> UTC of its start and
\* of its end: 2024-03-10 07:00 to 2024-11-03 06:00 and 2025-03-09 07:00
\* to 2025-11-02 06:00
SummerTimes ==
  {<<<<70, 7>>, <<308, 6>>>>, <<<<434, 7>>, <<672, 6>>>>}

InSummerTime(z, t) ==
  /\ z \in WestOfUtc
  /\ \E s \in SummerTimes :
       /\ HoursPerDay * s[1][1] + s[1][2] <= t
       /\ t < HoursPerDay * s[2][1] + s[2][2]

\* the hours the wall clock of zone z is ahead of UTC at instant t
UtcOffset(z, t) ==
  IF InSummerTime(z, t) THEN ZoneOffsets(z)[2] ELSE ZoneOffsets(z)[1]

\* what the wall clock of zone z shows at instant t, in hours
WallClock(z, t) == t + UtcOffset(z, t)

\* the calendar day of instant t in zone z
DayIn(z, t) == WallClock(z, t) \div HoursPerDay

\* the instant at which the wall clock of zone z shows w: the earlier one
\* when the clock shows w twice, and w read with the winter offset when
\* the clock skips w
InstantAt(z, w) ==
  LET at == {t \in {w - ZoneOffsets(z)[1], w - ZoneOffsets(z)[2]} :
               WallClock(z, t) = w}
  IN  IF at = {} THEN w - ZoneOffsets(z)[1]
      ELSE CHOOSE t \in at : \A u \in at : t <= u

\* the Date a script reads from a date cell that shows day d: midnight of
\* that day in the zone of the spreadsheet
DateCell(d) == InstantAt(sheetZone, HoursPerDay * d)

\* Utilities.formatDate(t, ss.getSpreadsheetTimeZone(), "yyyy-MM-dd"), and
\* the day a date cell shows for the Date t
SheetDay(t) == DayIn(sheetZone, t)

\* getWeekStart(dateObj): getDay, getDate and setDate read and move the
\* wall clock of the script's zone; the time of day is kept
getWeekStart(dateObj) ==
  LET w     == WallClock(zone, dateObj)
      day   == GetDay(w \div HoursPerDay)
      shift == (day + 6) % 7
  IN  InstantAt(zone, w - HoursPerDay * shift)

\* step 10 of updateHistoricalTrancheMetrics: the day the WkStart cell
\* shows for a row dated d
WkStartOf(d) == SheetDay(getWeekStart(DateCell(d)))

\* ------------------------------------------------- the header row
\* the columns the user keeps, TIDOverride last
InputHeaders ==
  <<"Date", "Type", "Sym", "RocPct", "Shr", "Price", "Dist", "TIDOverride">>

\* step 4 of updateHistoricalTrancheMetrics: the columns it writes
Rebuilt ==
  <<"WkStart", "TrID", "CostBasis", "DistPS", "IncPS", "RocPS", "Inc",
    "ROCAmt", "TotShr", "RemShr", "TStat">>

Spacer == " "

\* Array.indexOf on the header row, as a 1-based column; 0 when absent
IndexOf(hs, h) ==
  LET at == {i \in 1..Len(hs) : hs[i] = h}
  IN  IF at = {} THEN 0 ELSE CHOOSE i \in at : \A j \in at : i <= j

HasAll(hs, names) == \A h \in names : IndexOf(hs, h) > 0

\* step 1: the headers updateHistoricalTrancheMetrics cannot run without
MetricsHeaders == {InputHeaders[i] : i \in 1..Len(InputHeaders)}

\* steps 3-5: a spacer column is inserted after TIDOverride, everything to
\* its right is cleared and the rebuilt headers are written there
RebuiltHeaders(hs) ==
  SubSeq(hs, 1, IndexOf(hs, "TIDOverride")) \o <<Spacer>> \o Rebuilt

\* step 3 alone, as a run leaves the header row when it throws right
\* after it: one more spacer column after TIDOverride, the columns that
\* were to its right moved one place
SpacerInserted(hs) ==
  SubSeq(hs, 1, IndexOf(hs, "TIDOverride")) \o <<Spacer>>
    \o SubSeq(hs, IndexOf(hs, "TIDOverride") + 1, Len(hs))

SpacerCount(hs) == Cardinality({i \in 1..Len(hs) : hs[i] = Spacer})

\* the headers the second declaration of updateHistoricalTrancheMetrics
\* (line 306 of the file) cannot run without
OldSchemaHeaders ==
  {"Date", "Type", "Symbol", "RocPct", "Shares", "Price", "Dividend",
   "TrancheIDOverride"}

\* buildTrancheState step 2: the headers it looks up
StateHeaders ==
  {"Type", "TrID", "Sym", "Date", "Shr", "Price", "ROCAmt", "RocPct", "Dist"}

\* buildTrancheTracker step 2: the headers it looks up (first alias)
TrackerHeaders ==
  {"Type", "Sym", "Date", "WkStart", "TrID", "CostBasis", "TotShr", "RemShr",
   "DistPS", "IncPS", "RocPS", "Inc", "ROCAmt", "TStat"}

\* ------------------------------- updateHistoricalTrancheMetrics
\* step 2: the rows up to the first cell that is not a valid Date
CollectRows(data) ==
  LET bad == {i \in 1..Len(data) : ~ValidDate(data[i].date)}
      n   == IF bad = {} THEN Len(data)
             ELSE (CHOOSE i \in bad : \A j \in bad : i <= j) - 1
  IN  SubSeq(data, 1, n)

\* step 10: symbolRun[sym] after row i (Buy adds, Sell subtracts)
SymbolRun(rows, i) ==
  LET same  == {j \in 1..i : rows[j].sym = rows[i].sym}
      delta == [j \in same |->
                  IF rows[j].type = "buy" THEN rows[j].shr
                  ELSE IF rows[j].type = "sell" THEN -rows[j].shr
                  ELSE 0]
  IN  SumOver(delta, same)

\* step 11: rows that draw a letter from the (symbol, day) counter before
\* row i: every earlier non-dividend row with an empty override and the
\* same key
CounterBefore(rows, i) ==
  Cardinality({j \in 1..(i - 1) :
                 /\ rows[j].type # "dividend"
                 /\ rows[j].ov = NoId
                 /\ rows[j].sym = rows[i].sym
                 /\ FormatYYMMDD(rows[j].date) = FormatYYMMDD(rows[i].date)})

\* step 11: assigned[i]
AssignedId(rows, i) ==
  IF rows[i].type = "dividend" THEN NoId
  ELSE IF rows[i].ov # NoId THEN rows[i].ov
  ELSE GenId(rows[i].sym, FormatYYMMDD(rows[i].date), CounterBefore(rows, i))

Assigned(rows) == [i \in 1..Len(rows) |-> AssignedId(rows, i)]

\* step 12: buys[id], the shares of all Buy rows assigned id
BuysOf(rows, assigned, id) ==
  LET S == {j \in 1..Len(rows) : rows[j].type = "buy" /\ assigned[j] = id}
  IN  SumOver([j \in S |-> rows[j].shr], S)

\* step 12: shares of the Sell rows assigned id and dated <= day
SoldThrough(rows, assigned, id, day) ==
  LET S == {j \in 1..Len(rows) :
              /\ rows[j].type = "sell"
              /\ assigned[j] = id
              /\ rows[j].date <= day}
  IN  SumOver([j \in S |-> rows[j].shr], S)

StatusOf(remaining, total) ==
  IF remaining = 0 THEN "Closed"
  ELSE IF remaining < total THEN "Partial"
  ELSE "Open"

\* the cells of a row the script leaves empty
BlankMetrics ==
  [wkStart |-> NoDate, trID |-> NoId, costBasis |-> 0,
   distPS |-> Zero, incPS |-> Zero, rocPS |-> Zero, inc |-> Zero,
   rocAmt |-> Zero, totShr |-> 0, remShr |-> 0, tStat |-> ""]

\* steps 10-12 for row i of the valid-date rows
RowMetrics(rows, assigned, i) ==
  LET r       == rows[i]
      ts      == SymbolRun(rows, i)
      rawDist == RInt(r.dist)
      rocAmt  == RMul(r.pct, rawDist)
      incAmt  == RMul(RSub(RInt(1), r.pct), rawDist)
      isDiv   == r.type = "dividend"
      id      == assigned[i]
      total   == BuysOf(rows, assigned, id)
      remain  == total - SoldThrough(rows, assigned, id, r.date)
  IN  [wkStart   |-> WkStartOf(r.date),
       trID      |-> id,
       costBasis |-> IF r.type = "buy" THEN r.shr * r.price ELSE 0,
       distPS    |-> IF isDiv /\ ts # 0 THEN RDiv(rawDist, RInt(ts)) ELSE Zero,
       incPS     |-> IF isDiv /\ ts # 0 THEN RDiv(incAmt, RInt(ts)) ELSE Zero,
       rocPS     |-> IF isDiv /\ ts # 0 THEN RDiv(rocAmt, RInt(ts)) ELSE Zero,
       inc       |-> IF isDiv THEN incAmt ELSE Zero,
       rocAmt    |-> IF isDiv THEN rocAmt ELSE Zero,
       totShr    |-> ts,
       remShr    |-> IF isDiv THEN 0 ELSE remain,
       tStat     |-> IF isDiv THEN "" ELSE StatusOf(remain, total)]

\* the rebuilt columns for every row of the sheet; the rows after the
\* valid-date rows keep empty cells
RebuiltColumns(data) ==
  LET rows     == CollectRows(data)
      assigned == Assigned(rows)
  IN  [i \in 1..Len(data) |->
         IF i <= Len(rows) THEN RowMetrics(rows, assigned, i)
         ELSE BlankMetrics]

\* -------------------------------------------- buildTrancheTracker
\* order of two id strings under localeCompare.  Symbols have one length
\* and the date has six digits, so two ids are compared part by part, left
\* to right.  localeCompare is the collation of the locale and not the
\* order of the code units: punctuation comes before digits, digits come
\* before letters, and a small letter comes just before its capital.
SymRank(s) == IF s = "" THEN 0 ELSE IF s = "ABC" THEN 1 ELSE 2

\* the characters of Ascii in the order of the collation
Collation ==
  <<" ", "_", "-", ",", ";", ":", "!", "?", ".", "'", "\"", "(", ")", "[",
    "]", "{", "}", "@", "*", "/", "\\", "&", "#", "%", Escaped(GraveAccent),
    "^", "+", "<", "=", ">", "|", "~", "$",
    "0", "1", "2", "3", "4", "5", "6", "7", "8", "9",
    "a", "A", "b", "B", "c", "C", "d", "D", "e", "E", "f", "F", "g", "G",
    "h", "H", "i", "I", "j", "J", "k", "K", "l", "L", "m", "M", "n", "N",
    "o", "O", "p", "P", "q", "Q", "r", "R", "s", "S", "t", "T", "u", "U",
    "v", "V", "w", "W", "x", "X", "y", "Y", "z", "Z">>

\* the place of a letter in the collation; an id without a letter comes
\* before the ids that have one.  Defined for the characters of Ascii.
LetterRank(l) ==
  IF l = "" THEN 0
  ELSE CHOOSE k \in 1..Len(Collation) : Collation[k] = l

IdBefore(a, b) ==
  \/ SymRank(a[1]) < SymRank(b[1])
  \/ SymRank(a[1]) = SymRank(b[1]) /\ a[2] < b[2]
  \/ SymRank(a[1]) = SymRank(b[1]) /\ a[2] = b[2]
       /\ LetterRank(a[3]) < LetterRank(b[3])

\* step 6: the comparator is negative (a sorts before b)
TrackerBefore(a, b) ==
  \/ a.wkStart < b.wkStart
  \/ a.wkStart = b.wkStart /\ a.distDt < b.distDt
  \/ a.wkStart = b.wkStart /\ a.distDt = b.distDt /\ IdBefore(a.trID, b.trID)

\* x put after the rows that do not sort after it: Array.sort is stable
InsertSorted(sorted, x) ==
  LET later == {p \in 1..Len(sorted) : TrackerBefore(x, sorted[p])}
      at    == IF later = {} THEN Len(sorted) + 1
               ELSE CHOOSE p \in later : \A q \in later : p <= q
  IN  SubSeq(sorted, 1, at - 1) \o <<x>> \o SubSeq(sorted, at, Len(sorted))

RECURSIVE SortTracker(_)
SortTracker(rows) ==
  IF rows = <<>> THEN <<>>
  ELSE InsertSorted(SortTracker(SubSeq(rows, 1, Len(rows) - 1)),
                    rows[Len(rows)])

\* step 5: a Buy row takes part in a dividend of its symbol when the
\* RemShr and TStat cells of the Buy row itself say open
TrackerJoins(data, cols, d, b) ==
  /\ data[b].sym = data[d].sym
  /\ cols[b].remShr > 0
  /\ cols[b].tStat = "Open"

\* step 5: the output row of dividend row d and Buy row b.  The field
\* div is not a column of the sheet: it records which dividend row the
\* allocation row was built from.
TrackerRow(data, cols, d, b) ==
  [wkStart   |-> cols[d].wkStart,
   distDt    |-> data[d].date,
   trID      |-> cols[b].trID,
   costBasis |-> cols[b].costBasis,
   distPS    |-> cols[d].distPS,
   incPS     |-> cols[d].incPS,
   rocPS     |-> cols[d].rocPS,
   inc       |-> RMul(cols[d].incPS, RInt(cols[b].remShr)),
   rocAmt    |-> RMul(cols[d].rocPS, RInt(cols[b].remShr)),
   totShr    |-> cols[b].totShr,
   remShr    |-> cols[b].remShr,
   tStat     |-> cols[b].tStat,
   div       |-> d]

RECURSIVE CrossJoin(_, _, _, _)
\* step 5: dividends in row order, and for each the Buy rows in row order
CrossJoin(data, cols, d, b) ==
  IF d > Len(data) THEN <<>>
  ELSE IF b > Len(data) THEN CrossJoin(data, cols, d + 1, 1)
  ELSE IF /\ data[d].type = "dividend"
          /\ data[b].type = "buy"
          /\ TrackerJoins(data, cols, d, b)
       THEN <<TrackerRow(data, cols, d, b)>> \o CrossJoin(data, cols, d, b + 1)
       ELSE CrossJoin(data, cols, d, b + 1)

TrackerOutput(data, cols) == SortTracker(CrossJoin(data, cols, 1, 1))

\* ---------------------------------------------- buildTrancheState
\* step 3: the Buy rows whose TrID cell is id
BuyRowsOf(data, cols, id) ==
  {j \in 1..Len(data) : data[j].type = "buy" /\ cols[j].trID = id}

\* step 3: trancheMap[id] = {...} is an assignment, so the tranche of an
\* id is built from the last Buy row that carries the id
TrancheOfRow(data, j, id) ==
  [TrancheID |-> id, Symbol |-> data[j].sym, BuyDate |-> data[j].date,
   SharesBought |-> data[j].shr, PurchasePrice |-> data[j].price,
   SharesSold |-> 0]

InitTranches(data, cols) ==
  LET ids == {cols[j].trID : j \in {k \in 1..Len(data) : data[k].type = "buy"}}
  IN  [id \in ids |->
         LET js   == BuyRowsOf(data, cols, id)
             last == CHOOSE j \in js : \A k \in js : k <= j
         IN  TrancheOfRow(data, last, id)]

NoSale == [price |-> 0, date |-> NoDate]

\* step 4a: a Sell row of a known tranche
ApplySell(st, r, id) ==
  [st EXCEPT
     !.tranche[id].SharesSold = @ + r.shr,
     !.latestSale[id] =
        IF @ = NoSale \/ r.date > @.date
        THEN [price |-> r.price, date |-> r.date]
        ELSE @]

\* step 4b: rem of a tranche while the rows are replayed
RemOf(t) == t.SharesBought - t.SharesSold

\* step 4b: the ROC one tranche gets from a dividend row
RocVal(r, m, rem, totalRem) ==
  LET divPS  == RInt(r.dist)
      amtVal == m.rocAmt
      pctVal == RDiv(r.pct, RInt(100))
  IN  IF RPos(amtVal)
      THEN RMul(amtVal, Rat(rem, totalRem))
      ELSE RMul(RMul(pctVal, divPS), RInt(rem))

\* step 4b as it would be without the filter on Symbol: every tranche
\* with shares is paid
ApplyDividendAnySymbol(st, r, m, i) ==
  LET openIDs  == DOMAIN st.tranche
      totalRem == SumOver([k \in openIDs |-> RemOf(st.tranche[k])], openIDs)
      paid     == {k \in openIDs : RemOf(st.tranche[k]) > 0}
      val      == [k \in paid |->
                     RocVal(r, m, RemOf(st.tranche[k]), totalRem)]
      used     == [k \in paid |->
                     [rem |-> RemOf(st.tranche[k]), roc |-> val[k]]]
  IN  IF totalRem <= 0 THEN st
      ELSE [st EXCEPT
              !.roc = [k \in DOMAIN @ |->
                         IF k \in paid THEN RAdd(@[k], val[k]) ELSE @[k]],
              !.credit = [j \in DOMAIN @ |-> IF j = i THEN used ELSE @[j]]]

\* step 4b as it would be with `rocMap[key] = rocVal`: the ROC of a
\* dividend replaces what the tranche had
ApplyDividendLastOnly(st, r, m, i) ==
  LET openIDs  == {k \in DOMAIN st.tranche : st.tranche[k].Symbol = r.sym}
      totalRem == SumOver([k \in openIDs |-> RemOf(st.tranche[k])], openIDs)
      paid     == {k \in openIDs : RemOf(st.tranche[k]) > 0}
      val      == [k \in paid |->
                     RocVal(r, m, RemOf(st.tranche[k]), totalRem)]
      used     == [k \in paid |->
                     [rem |-> RemOf(st.tranche[k]), roc |-> val[k]]]
  IN  IF totalRem <= 0 THEN st
      ELSE [st EXCEPT
              !.roc = [k \in DOMAIN @ |->
                         IF k \in paid THEN val[k] ELSE @[k]],
              !.credit = [j \in DOMAIN @ |-> IF j = i THEN used ELSE @[j]]]

\* step 4b: a Dividend row.  When the tranches of the symbol hold no
\* shares the handler returns at once: no map is touched and nothing is
\* logged, so st.unallocated stays as it was.
ApplyDividend(st, r, m, i) ==
  LET openIDs  == {k \in DOMAIN st.tranche : st.tranche[k].Symbol = r.sym}
      totalRem == SumOver([k \in openIDs |-> RemOf(st.tranche[k])], openIDs)
      paid     == {k \in openIDs : RemOf(st.tranche[k]) > 0}
      val      == [k \in paid |->
                     RocVal(r, m, RemOf(st.tranche[k]), totalRem)]
      used     == [k \in paid |->
                     [rem |-> RemOf(st.tranche[k]), roc |-> val[k]]]
  IN  IF totalRem <= 0 THEN st
      ELSE [st EXCEPT
              !.roc = [k \in DOMAIN @ |->
                         IF k \in paid THEN RAdd(@[k], val[k]) ELSE @[k]],
              !.credit = [j \in DOMAIN @ |-> IF j = i THEN used ELSE @[j]]]

\* step 4: one row
ReplayRow(st, r, m, i) ==
  LET id == m.trID
  IN  IF r.type = "dividend" THEN ApplyDividend(st, r, m, i)
      ELSE IF id \notin DOMAIN st.tranche THEN st
      ELSE IF r.type = "sell" THEN ApplySell(st, r, id)
      ELSE st

\* step 3: the maps before the first row is replayed
ReplayStart(data, cols) ==
  LET tm == InitTranches(data, cols)
  IN  [tranche     |-> tm,
       latestSale  |-> [id \in DOMAIN tm |-> NoSale],
       roc         |-> [id \in DOMAIN tm |-> Zero],
       credit      |-> [j \in 1..Len(data) |-> <<>>],
       unallocated |-> {}]

\* steps 3-4: the maps after the first n rows.  credit[i] is what dividend
\* row i did: for each tranche it paid, the rem it used and the ROC it
\* added (empty when it paid none); unallocated is the set of dividend
\* rows reported as paid to no tranche.
RECURSIVE ReplayUpTo(_, _, _)
ReplayUpTo(data, cols, n) ==
  IF n = 0 THEN ReplayStart(data, cols)
  ELSE ReplayRow(ReplayUpTo(data, cols, n - 1), data[n], cols[n], n)

\* steps 3-4: the maps before row 1 (index 0) and after each row
ReplaySteps(data, cols) ==
  [n \in 0..Len(data) |-> ReplayUpTo(data, cols, n)]

\* steps 3-4: the maps after all rows
ReplayAll(data, cols) == ReplayUpTo(data, cols, Len(data))

\* step 5: the Status cell
TrancheStatus(rem, bought) ==
  IF rem = 0 THEN "Closed"
  ELSE IF rem < bought THEN "Partial"
  ELSE "Open"

\* step 5: the output row of one tranche.  ShSold, ShRem and SellPx are
\* written as an empty cell when they are 0; the model keeps the number.
\* HeldDays and LTGDays are empty cells (Blank) when the BuyDate cell is
\* empty.  The columns computed from the MarketData price (CurrPx, MktVal,
\* UnrlGain, ExitGain, ExitFlg, RlzGain) are not part of the model.
Blank == -1

LongTermDays == 365

Max(a, b) == IF a >= b THEN a ELSE b

\* step 5 as it would be with `pct = cost ? con / cost : con`
StateRowRawRatio(t, sale, roc, now) ==
  LET rem  == t.SharesBought - t.SharesSold
      cost == t.PurchasePrice * t.SharesBought
      heldDays == IF ValidDate(t.BuyDate) THEN now - t.BuyDate ELSE Blank
      ltgDays  == IF ValidDate(t.BuyDate)
                  THEN Max(0, LongTermDays - heldDays) ELSE Blank
  IN  [ID          |-> t.TrancheID,
       Sym         |-> t.Symbol,
       BuyDt       |-> t.BuyDate,
       ShBuy       |-> t.SharesBought,
       BuyPx       |-> t.PurchasePrice,
       ShSold      |-> t.SharesSold,
       SellPx      |-> sale.price,
       ShRem       |-> rem,
       CostBasis   |-> cost,
       AdjBasis    |-> RSub(RInt(cost), roc),
       ConBasis    |-> roc,
       ConBasisPct |-> IF cost # 0 THEN RDiv(roc, RInt(cost)) ELSE roc,
       Status      |-> TrancheStatus(rem, t.SharesBought),
       HeldDays    |-> heldDays,
       LTGDays     |-> ltgDays]

StateRow(t, sale, roc, now) ==
  LET rem  == t.SharesBought - t.SharesSold
      cost == t.PurchasePrice * t.SharesBought
      heldDays == IF ValidDate(t.BuyDate) THEN now - t.BuyDate ELSE Blank
      ltgDays  == IF ValidDate(t.BuyDate)
                  THEN Max(0, LongTermDays - heldDays) ELSE Blank
  IN  [ID          |-> t.TrancheID,
       Sym         |-> t.Symbol,
       BuyDt       |-> t.BuyDate,
       ShBuy       |-> t.SharesBought,
       BuyPx       |-> t.PurchasePrice,
       ShSold      |-> t.SharesSold,
       SellPx      |-> sale.price,
       ShRem       |-> rem,
       CostBasis   |-> cost,
       AdjBasis    |-> RSub(RInt(cost), roc),
       ConBasis    |-> roc,
       ConBasisPct |-> IF cost # 0 THEN RDiv(roc, RInt(cost)) ELSE Zero,
       Status      |-> TrancheStatus(rem, t.SharesBought),
       HeldDays    |-> heldDays,
       LTGDays     |-> ltgDays]

StateOutput(st, now) ==
  [id \in DOMAIN st.tranche |->
     StateRow(st.tranche[id], st.latestSale[id], st.roc[id], now)]

\* ---------------------------------------------- buildIncomeTracker
\* step 7: the headers it cannot run without (compared in lower case)
IncomeHeaders == {"Type", "WkStart", "Sym", "Dist", "ROCAmt", "Inc", "TotShr"}

\* step 8: what one Dividend row adds to its (week, symbol) group.  An Inc
\* cell that parses to 0 is replaced by dist - roc.
IncomeOfRow(r, m) ==
  LET dist == RInt(r.dist)
      roc  == m.rocAmt
      tax  == IF m.inc # Zero THEN m.inc ELSE RSub(dist, roc)
  IN  [Dist |-> dist, Inc |-> tax, Roc |-> roc, ShElig |-> m.totShr]

\* step 8: the groups, in the order in which their first row appears; a
\* group holds Wk, Sym, Dist, Inc, Roc and ShElig and no count of its rows
RECURSIVE Aggregate(_, _, _, _)
Aggregate(data, cols, i, agg) ==
  IF i > Len(data) THEN agg
  ELSE IF data[i].type # "dividend" THEN Aggregate(data, cols, i + 1, agg)
  ELSE
    LET wk  == cols[i].wkStart
        sym == data[i].sym
        add == IncomeOfRow(data[i], cols[i])
        at  == {k \in 1..Len(agg) : agg[k].Wk = wk /\ agg[k].Sym = sym}
        new == [Wk |-> wk, Sym |-> sym, Dist |-> add.Dist, Inc |-> add.Inc,
                Roc |-> add.Roc, ShElig |-> add.ShElig]
    IN  IF at = {} THEN Aggregate(data, cols, i + 1, Append(agg, new))
        ELSE LET k == CHOOSE x \in at : TRUE
             IN  Aggregate(data, cols, i + 1,
                   [agg EXCEPT ![k].Dist   = RAdd(@, add.Dist),
                               ![k].Inc    = RAdd(@, add.Inc),
                               ![k].Roc    = RAdd(@, add.Roc),
                               ![k].ShElig = @ + add.ShElig])

\* step 9: the totals of a week over all symbols
RECURSIVE WeekTotals(_, _, _)
WeekTotals(agg, wk, k) ==
  IF k > Len(agg) THEN [Dist |-> Zero, Inc |-> Zero, Roc |-> Zero]
  ELSE LET rest == WeekTotals(agg, wk, k + 1)
       IN  IF agg[k].Wk # wk THEN rest
           ELSE [Dist |-> RAdd(agg[k].Dist, rest.Dist),
                 Inc  |-> RAdd(agg[k].Inc, rest.Inc),
                 Roc  |-> RAdd(agg[k].Roc, rest.Roc)]

\* step 9 as it would be if a week's total stopped at its first group
WeekAllFirstOnly(agg, wk) ==
  LET at == {k \in 1..Len(agg) : agg[k].Wk = wk}
      k  == CHOOSE x \in at : \A y \in at : x <= y
  IN  [Dist |-> agg[k].Dist, Inc |-> agg[k].Inc, Roc |-> agg[k].Roc]

WeekAll(agg, wk) == WeekTotals(agg, wk, 1)

\* step 10: Array.sort by week start is stable, so the groups of one week
\* keep the order of step 8
RECURSIVE SortByWeek(_)
SortByWeek(agg) ==
  IF agg = <<>> THEN <<>>
  ELSE LET sorted == SortByWeek(SubSeq(agg, 1, Len(agg) - 1))
           e      == agg[Len(agg)]
           before == {k \in 1..Len(sorted) : sorted[k].Wk <= e.Wk}
           n      == Cardinality(before)
       IN  SubSeq(sorted, 1, n) \o <<e>> \o SubSeq(sorted, n + 1, Len(sorted))

\* step 10: new Date(e.Wk).getFullYear().  e.Wk is the string
\* "yyyy-MM-dd", which new Date reads as midnight UTC of that day, and
\* getFullYear answers in the zone of the script: at UTC and east of it
\* the year of the week start, west of UTC the year of the evening before
WeekYear(wk) == YearOf(DayIn(zone, HoursPerDay * wk))

\* the value of an accumulator map at a key, 0 when the key is new
Lookup(acc, key) == IF key \in DOMAIN acc THEN acc[key] ELSE Zero

\* step 10: `acc[key] = (acc[key] || 0) + x`
Accumulate(acc, key, x) ==
  [k \in DOMAIN acc \cup {key} |->
     IF k = key THEN RAdd(Lookup(acc, key), x) ELSE acc[k]]

\* step 10: the year-to-date accumulators, keyed by year and by
\* <<year, symbol>>, and the output rows
RECURSIVE IncomeLoop(_, _, _, _, _)
IncomeLoop(agg, sorted, k, ytd, out) ==
  IF k > Len(sorted) THEN out
  ELSE
    LET e      == sorted[k]
        yr     == WeekYear(e.Wk)
        symKey == <<yr, e.Sym>>
        wkAll  == WeekAll(agg, e.Wk)
        ytd2   == [distAll |-> Accumulate(ytd.distAll, yr, e.Dist),
                   incAll  |-> Accumulate(ytd.incAll, yr, e.Inc),
                   rocAll  |-> Accumulate(ytd.rocAll, yr, e.Roc),
                   distSym |-> Accumulate(ytd.distSym, symKey, e.Dist),
                   incSym  |-> Accumulate(ytd.incSym, symKey, e.Inc),
                   rocSym  |-> Accumulate(ytd.rocSym, symKey, e.Roc)]
        row    == [Wk         |-> e.Wk,
                   Sym        |-> e.Sym,
                   Dist       |-> e.Dist,
                   DistWkTot  |-> wkAll.Dist,
                   DistYTD    |-> ytd2.distSym[symKey],
                   DistYtdAll |-> ytd2.distAll[yr],
                   Inc        |-> e.Inc,
                   IncWkTot   |-> wkAll.Inc,
                   IncYTD     |-> ytd2.incSym[symKey],
                   IncYtdAll  |-> ytd2.incAll[yr],
                   Roc        |-> e.Roc,
                   RocWkTot   |-> wkAll.Roc,
                   RocYTD     |-> ytd2.rocSym[symKey],
                   RocYtdAll  |-> ytd2.rocAll[yr],
                   ShElig     |-> e.ShElig]
    IN  IncomeLoop(agg, sorted, k + 1, ytd2, Append(out, row))

NoYtd ==
  [distAll |-> <<>>, incAll |-> <<>>, rocAll |-> <<>>,
   distSym |-> <<>>, incSym |-> <<>>, rocSym |-> <<>>]

IncomeOutput(data, cols) ==
  LET agg == Aggregate(data, cols, 1, <<>>)
  IN  IncomeLoop(agg, SortByWeek(agg), 1, NoYtd, <<>>)

\* ------------------------------------------------- getWeekStart call
\* no call yet
NoCall == [given |-> NoDate, dateObj |-> NoDate, dt |-> NoDate]

\* the objects of one call as they would be if the function shifted the
\* Date it was handed instead of a copy
GetWeekStartInPlace(dateObj) ==
  [given |-> dateObj, dateObj |-> getWeekStart(dateObj),
   dt |-> getWeekStart(dateObj)]

\* getWeekStart(dateObj): `dt = new Date(dateObj)` is a copy, setDate
\* moves the copy and the copy is returned
GetWeekStartCall(dateObj) ==
  [given |-> dateObj, dateObj |-> dateObj, dt |-> getWeekStart(dateObj)]

\* ---------------------------------------------------------- MarketData
\* the data rows of the MarketData sheet
MarketRows == 2

\* a row in which the three cells are empty
EmptyMarketRow == [cur |-> Blank, last |-> Blank, prev |-> Blank]

\* the loop body as it would be if every priced row were stamped
CheckedRowAlways(row, now) ==
  IF row.cur # Blank THEN [row EXCEPT !.last = now, !.prev = row.cur]
  ELSE row

\* the loop body: when CurrentPrice is not empty and is not the stored
\* price, LastUpdate := now and stored price := CurrentPrice
CheckedRow(row, now) ==
  IF row.cur # Blank /\ row.cur # row.prev
  THEN [row EXCEPT !.last = now, !.prev = row.cur]
  ELSE row

\* ------------------------------------------------------------ actions
\* the day of the first run
Today0 == 380

Init ==
  /\ raw = <<>>
  /\ pc = "edit"
  /\ metrics = <<>>
  /\ tracker = <<>>
  /\ stateOut = <<>>
  /\ rocCredit = <<>>
  /\ built = {}
  /\ headers = InputHeaders
  /\ today = Today0
  /\ unallocated = {}
  /\ lotTrace = <<>>
  /\ income = <<>>
  /\ runs = 0
  /\ weekCall = NoCall
  /\ market = [i \in 1..MarketRows |-> EmptyMarketRow]
  /\ clock = 0
  /\ zone = "Etc/UTC"
  /\ sheetZone = "Etc/UTC"

\* the owner sets the time zone of the script project, before the sheet
\* is filled and before any script has run
SetTimeZone ==
  /\ raw = <<>> /\ headers = InputHeaders /\ built = {} /\ runs = 0
  /\ weekCall = NoCall
  /\ \E z \in Zones \ {zone} : zone' = z
  /\ UNCHANGED <<raw, pc, metrics, tracker, stateOut, rocCredit, built,
                 headers, today, unallocated, lotTrace, income, runs,
                 weekCall, market, clock, sheetZone>>

\* the owner sets the time zone of the spreadsheet, before the sheet is
\* filled and before any script has run
SetSpreadsheetTimeZone ==
  /\ raw = <<>> /\ headers = InputHeaders /\ built = {} /\ runs = 0
  /\ weekCall = NoCall
  /\ \E z \in Zones \ {sheetZone} : sheetZone' = z
  /\ UNCHANGED <<raw, pc, metrics, tracker, stateOut, rocCredit, built,
                 headers, today, unallocated, lotTrace, income, runs,
                 weekCall, market, clock, zone>>

\* the user types one more row at the bottom of the Transactions sheet
AddRow(Rows) ==
  /\ pc = "edit"
  /\ Len(raw) < MaxRows
  /\ \E r \in Rows : raw' = Append(raw, r)
  /\ UNCHANGED <<weekCall, market, clock, zone, sheetZone>>
  /\ UNCHANGED <<pc, metrics, tracker, stateOut, rocCredit, built,
                 headers, today, unallocated, lotTrace, income, runs>>

\* how many spacer columns the runs that throw may pile up
MaxSpacers == 2

\* One run of updateHistoricalTrancheMetrics (the declaration at line 9).
\* Step 1 throws before the sheet is touched when an input header is
\* missing.  With no valid-date row at the top of the sheet numRows is 0:
\* step 3 inserts the spacer column, writes its " " header and throws on
\* getRange(2, spacerCol1, 0, 1), so nothing is rebuilt.  Otherwise the
\* rebuilt columns are written again.
MetricsRun ==
  /\ (HasAll(headers, MetricsHeaders) /\ CollectRows(raw) = <<>>)
       => SpacerCount(headers) < MaxSpacers
  /\ IF ~HasAll(headers, MetricsHeaders)
     THEN UNCHANGED <<metrics, headers, pc>>
     ELSE IF CollectRows(raw) = <<>>
     THEN /\ headers' = SpacerInserted(headers)
          /\ UNCHANGED <<metrics, pc>>
     ELSE /\ metrics' = RebuiltColumns(raw)
          /\ headers' = RebuiltHeaders(headers)
          /\ pc' = "ready"
  /\ UNCHANGED <<weekCall, market, clock, zone, sheetZone>>
  /\ UNCHANGED <<raw, tracker, stateOut, rocCredit, built, today,
                 unallocated, lotTrace, income>>

UpdateHistoricalTrancheMetrics == MetricsRun /\ UNCHANGED runs

\* The file declares updateHistoricalTrancheMetrics a second time (line
\* 306), for the column names of an older sheet layout; where that
\* declaration is the one a call reaches, step 1 misses its headers on the
\* sheet of this model and throws with nothing changed.
UpdateHistoricalTrancheMetricsOldSchema ==
  /\ ~HasAll(headers, OldSchemaHeaders)
  /\ UNCHANGED vars

\* One run of buildTrancheTracker.  insureClearedSheet("TrancheTracker")
\* comes first, the header check after it: a run that throws leaves the
\* output sheet empty
TrackerRun ==
  /\ IF HasAll(headers, TrackerHeaders)
     THEN /\ tracker' = TrackerOutput(raw, metrics)
          /\ built' = built \cup {"TrancheTracker"}
     ELSE /\ tracker' = <<>>
          /\ built' = built \ {"TrancheTracker"}
  /\ UNCHANGED <<weekCall, market, clock, zone, sheetZone>>
  /\ UNCHANGED <<raw, pc, metrics, stateOut, rocCredit, headers, today,
                 unallocated, lotTrace, income>>

BuildTrancheTracker == TrackerRun /\ UNCHANGED runs

\* One run of buildTrancheState.  insureClearedSheet("TrancheState") comes
\* first, the header check after it: a run that throws leaves the output
\* sheet empty.  A log that opens no lot gives an output of the header row
\* alone; the row is written and formatTrancheStateSheet then throws on
\* getRange(2, col, numRows - 1) with numRows = 1.
StateRun ==
  /\ IF HasAll(headers, StateHeaders)
     THEN LET steps == ReplaySteps(raw, metrics)
              st    == steps[Len(raw)]
          IN  /\ stateOut' = StateOutput(st, today)
              /\ rocCredit' = st.credit
              /\ unallocated' = st.unallocated
              /\ lotTrace' = steps
              /\ built' = IF DOMAIN st.tranche = {}
                          THEN built \ {"TrancheState"}
                          ELSE built \cup {"TrancheState"}
     ELSE /\ stateOut' = <<>>
          /\ rocCredit' = <<>>
          /\ unallocated' = {}
          /\ lotTrace' = <<>>
          /\ built' = built \ {"TrancheState"}
  /\ UNCHANGED <<weekCall, market, clock, zone, sheetZone>>
  /\ UNCHANGED <<raw, pc, metrics, tracker, headers, today, income>>

BuildTrancheState == StateRun /\ UNCHANGED runs

\* One run of buildIncomeTracker (the declaration of part_001).
\* insureClearedSheet("IncomeTracker") and the output header row come
\* first, the header check after them: a run that throws leaves the
\* output sheet without rows
IncomeRun ==
  /\ IF HasAll(headers, IncomeHeaders)
     THEN /\ income' = IncomeOutput(raw, metrics)
          /\ built' = built \cup {"IncomeTracker"}
     ELSE /\ income' = <<>>
          /\ built' = built \ {"IncomeTracker"}
  /\ UNCHANGED <<weekCall, market, clock, zone, sheetZone>>
  /\ UNCHANGED <<raw, pc, metrics, tracker, stateOut, rocCredit, headers,
                 today, unallocated, lotTrace>>

BuildIncomeTracker == IncomeRun /\ UNCHANGED runs

\* part_000 declares buildIncomeTracker two more times, for older sheet
\* layouts.  The declaration of line 159 reads the columns WeekStart,
\* Symbol, Dividend, RocAmount, TaxableIncome and TotalShares, none of which
\* the sheet of this model has: on every Dividend row the week is
\* new Date(undefined), an invalid Date, the symbol is the text
\* "undefined" and the amounts are 0.
\*
\* 1970-01-01, the day of instant 0 of a JavaScript Date, as a day number
EpochDay == -19722

\* the one row the declaration of line 159 writes where
\* Utilities.formatDate formats an invalid Date as the epoch: all n
\* Dividend rows fall into one group
OldSchemaRow(n, now) ==
  [Wk          |-> SheetDay(HoursPerDay * EpochDay),
   Sym         |-> "undefined",
   Dist_WkSym  |-> Zero, Dist_WkAll  |-> Zero,
   Dist_YTDSym |-> Zero, Dist_YTDAll |-> Zero,
   Tax_WkSym   |-> Zero, Tax_WkAll   |-> Zero,
   Tax_YTDSym  |-> Zero, Tax_YTDAll  |-> Zero,
   ROC_WkSym   |-> Zero, ROC_WkAll   |-> Zero,
   ROC_YTDSym  |-> Zero, ROC_YTDAll  |-> Zero,
   ShElig      |-> 0,
   IncPS       |-> Zero,
   TrCnt       |-> n,
   UpdTS       |-> now]

\* One run of the buildIncomeTracker of part_000, line 159.  It clears the
\* IncomeTracker sheet and writes its own header row.  What
\* Utilities.formatDate does with an invalid Date is not in the
\* repository: where it throws, the run ends at the first Dividend row;
\* where it formats the epoch, the run writes one row and returns.
\* Without a Dividend row the run throws on getRange(2, 1, 0) of step 10.
\* (The declaration of line 1 reads a SyntheticDividends sheet, which is
\* not there: it throws after the header row, as in the first case.)
BuildIncomeTrackerOldSchema ==
  /\ \/ /\ income' = <<>>
        /\ built' = built \ {"IncomeTracker"}
     \/ LET divs == {i \in 1..Len(raw) : raw[i].type = "dividend"}
        IN  /\ divs # {}
            /\ income' = <<OldSchemaRow(Cardinality(divs), today)>>
            /\ built' = built \cup {"IncomeTracker"}
  /\ UNCHANGED <<weekCall, market, clock, zone, sheetZone>>
  /\ UNCHANGED <<raw, pc, metrics, tracker, stateOut, rocCredit, headers,
                 today, unallocated, lotTrace, runs>>

Next ==
  \/ AddRow(LedgerRows)
  \/ UpdateHistoricalTrancheMetrics
  \/ BuildTrancheTracker
  \/ BuildTrancheState

Spec == Init /\ [][Next]_vars

\* ------------------------------------------- logs about the cost basis
\* One symbol; Buy rows at price 0 and with 0 shares; and the two rows of
\* the worked example: 100 shares bought at 10.00, then a distribution of
\* 50.00 of which 40% is return of capital.
BasisSym == "ABC"

ExampleBuy == Row("buy", 1, BasisSym, 100, 10, 0, Zero, NoId)

ExampleDividend == Row("dividend", 8, BasisSym, 0, 0, 50, Rat(2, 5), NoId)

BasisRows ==
  {Row("buy", d, BasisSym, sh, px, 0, Zero, ov) :
     d \in Dates, sh \in Shares, px \in 0..MaxPrice, ov \in Overrides}
  \cup {Row("buy", 1, BasisSym, 0, MaxPrice, 0, Zero, NoId)}
  \cup {Row("sell", d, BasisSym, sh, MaxPrice, 0, Zero, ov) :
          d \in Dates, sh \in Shares, ov \in Overrides}
  \cup {Row("dividend", d, BasisSym, 0, 0, di, pp, NoId) :
          d \in Dates, di \in Dists, pp \in Pcts}
  \cup {ExampleBuy, ExampleDividend}

NextBasis ==
  \/ AddRow(BasisRows)
  \/ UpdateHistoricalTrancheMetrics
  \/ BuildTrancheState

SpecBasis == Init /\ [][NextBasis]_vars

\* ------------------------------------------- the scripts run again
\* A short log of one Buy, one Sell and Dividend rows, typed before the
\* first script runs.  The four scripts are separate entry points; the
\* user runs them one after the other (metrics first), for up to MaxRuns
\* rounds, and midnight may pass between any two of them.
MaxRuns == 2

MaxTicks == 1

\* the scripts of one round, in the order in which they are run
Round ==
  <<"updateHistoricalTrancheMetrics", "buildTrancheTracker",
    "buildIncomeTracker", "buildTrancheState">>

ScriptsPerRound == Len(Round)

\* the script that is run after n scripts have been run
NextScript(n) == Round[(n % ScriptsPerRound) + 1]

RerunRows ==
  {Row("buy", 1, "ABC", MaxShares, MaxPrice, 0, Zero, NoId),
   Row("buy", MaxDate, "XYZ", 1, MaxPrice, 0, Zero, NoId),
   Row("sell", MaxDate, "ABC", 1, MaxPrice, 0, Zero,
       GenId("ABC", FormatYYMMDD(1), 0))}
  \cup {Row("dividend", d, s, 0, 0, di, pp, NoId) :
          d \in {MaxDate}, s \in Syms, di \in Dists, pp \in Pcts}

\* the user runs the next script of the round: runs counts the scripts
\* run so far; updateHistoricalTrancheMetrics, buildTrancheTracker,
\* buildIncomeTracker and buildTrancheState take turns
RunPipeline ==
  /\ runs < ScriptsPerRound * MaxRuns
  /\ runs' = runs + 1
  /\ \/ NextScript(runs) = "updateHistoricalTrancheMetrics" /\ MetricsRun
     \/ NextScript(runs) = "buildTrancheTracker" /\ TrackerRun
     \/ NextScript(runs) = "buildIncomeTracker" /\ IncomeRun
     \/ NextScript(runs) = "buildTrancheState" /\ StateRun

\* the log is typed before the first script runs
TypeRow == runs = 0 /\ AddRow(RerunRows)

\* midnight passes
Tick ==
  /\ today < Today0 + MaxTicks
  /\ today' = today + 1
  /\ UNCHANGED <<weekCall, market, clock, zone, sheetZone>>
  /\ UNCHANGED <<raw, pc, metrics, tracker, stateOut, rocCredit, built,
                 headers, unallocated, lotTrace, income, runs>>

NextRerun ==
  \/ SetTimeZone
  \/ SetSpreadsheetTimeZone
  \/ TypeRow
  \/ RunPipeline
  \/ Tick

SpecRerun == Init /\ [][NextRerun]_vars

\* ------------------------------------------- a column goes missing
\* The user renames one column of Transactions, so that the scripts that
\* look the column up by its name no longer find it.
Renamable == {"Date", "TrID", "Inc", "TStat"}

RenameHeader ==
  /\ IndexOf(headers, "Renamed") = 0
  /\ \E h \in Renamable :
       /\ IndexOf(headers, h) > 0
       /\ headers' = [headers EXCEPT ![IndexOf(headers, h)] = "Renamed"]
  /\ UNCHANGED <<weekCall, market, clock, zone, sheetZone>>
  /\ UNCHANGED <<raw, pc, metrics, tracker, stateOut, rocCredit, built,
                 today, unallocated, lotTrace, income, runs>>

NextSchema ==
  \/ SetTimeZone
  \/ SetSpreadsheetTimeZone
  \/ AddRow(RerunRows)
  \/ RenameHeader
  \/ UpdateHistoricalTrancheMetrics
  \/ UpdateHistoricalTrancheMetricsOldSchema
  \/ BuildTrancheTracker
  \/ BuildIncomeTracker
  \/ BuildIncomeTrackerOldSchema
  \/ BuildTrancheState

SpecSchema == Init /\ [][NextSchema]_vars

\* ------------------------------------------- logs with an empty row
\* Buy and Dividend rows, and a row whose cells are all empty: the metrics
\* stop at such a row, the builders read the rows below it all the same.
BlankRow == Row("", NoDate, "", 0, 0, 0, Zero, NoId)

GapRows ==
  {Row("buy", d, s, sh, px, 0, Zero, NoId) :
     d \in Dates, s \in Syms, sh \in Shares, px \in Prices}
  \cup DivRows
  \cup {BlankRow}

NextGaps ==
  \/ AddRow(GapRows)
  \/ UpdateHistoricalTrancheMetrics
  \/ BuildTrancheState

SpecGaps == Init /\ [][NextGaps]_vars

\* ------------------------------------------- logs about the income
\* Dividend rows of two symbols in five weeks: the week of 2023-12-25,
\* the weeks of 2024-01-01 and 2024-01-08, the week of 2024-12-30 (which
\* holds 2025-01-01) and the week of 2025-01-06.  ABC has RocPct cells of
\* 0 and 0.5 in every week and one of 40 (40% typed on the scale that
\* buildTrancheState divides by 100) on 2024-01-08; XYZ has dividends
\* with RocPct 0.5 on 2024-01-01 and 2025-01-06; one Buy row.
IncomeDates == {-6, 1, 8, 367, 372}

OtherSymDates == {1, 372}

OverPctDates == {8}

IncomeRows ==
  {Row("dividend", d, "ABC", 0, 0, di, pp, NoId) :
     d \in IncomeDates, di \in Dists, pp \in Pcts}
  \cup {Row("dividend", d, "ABC", 0, 0, di, RInt(40), NoId) :
          d \in OverPctDates, di \in Dists}
  \cup {Row("dividend", d, "XYZ", 0, 0, di, Rat(1, 2), NoId) :
          d \in OtherSymDates, di \in Dists}
  \cup {Row("buy", 1, "ABC", 1, MaxPrice, 0, Zero, NoId)}

NextIncome ==
  \/ SetTimeZone
  \/ SetSpreadsheetTimeZone
  \/ AddRow(IncomeRows)
  \/ UpdateHistoricalTrancheMetrics
  \/ BuildIncomeTracker

SpecIncome == Init /\ [][NextIncome]_vars

\* ---------------------------------------------- the ledger as specified
\* What the specification says of a log, read off the rows and the ids
\* the rows resolved to (the TrID column), for use in the properties.
RowIdx   == 1..Len(raw)
DivIdx   == {i \in RowIdx : raw[i].type = "dividend"}
TradeIdx == {i \in RowIdx : raw[i].type # "dividend"}
BuyIdx(id)  == {i \in RowIdx : raw[i].type = "buy" /\ metrics[i].trID = id}
SellIdx(id) == {i \in RowIdx : raw[i].type = "sell" /\ metrics[i].trID = id}
LotIds   == {metrics[i].trID : i \in {j \in RowIdx : raw[j].type = "buy"}}
LotHasSym(id, s) == \E i \in BuyIdx(id) : raw[i].sym = s

SharesOf(S) == SumOver([i \in S |-> raw[i].shr], S)
BoughtAsOf(id, day) == SharesOf({i \in BuyIdx(id) : raw[i].date <= day})
SoldAsOf(id, day)   == SharesOf({i \in SellIdx(id) : raw[i].date <= day})
RemAsOf(id, day)    == BoughtAsOf(id, day) - SoldAsOf(id, day)
LotBought(id)       == SharesOf(BuyIdx(id))
LotCost(id) ==
  SumOver([i \in BuyIdx(id) |-> raw[i].shr * raw[i].price], BuyIdx(id))
LotFirstBuy(id) ==
  CHOOSE d \in {raw[i].date : i \in BuyIdx(id)} :
    \A i \in BuyIdx(id) : d <= raw[i].date

\* the lots of symbol s that hold shares on the given day
OpenLotsAt(s, day) ==
  {id \in LotIds : LotHasSym(id, s) /\ RemAsOf(id, day) > 0}

\* row i comes before row j in the ledger order: by date, then by row
LedgerBefore(i, j) ==
  \/ raw[i].date < raw[j].date
  \/ raw[i].date = raw[j].date /\ i < j

\* what dividend row d did to lot id in buildTrancheState
CreditOf(d, id) ==
  IF id \in DOMAIN rocCredit[d] THEN rocCredit[d][id].roc ELSE Zero
UsedRem(d, id) ==
  IF id \in DOMAIN rocCredit[d] THEN rocCredit[d][id].rem ELSE 0
\* the TrancheTracker rows built from dividend row d
TrackerIdx(d) == {k \in 1..Len(tracker) : tracker[k].div = d}

MetricsDone == pc = "ready"
StateDone   == "TrancheState" \in built
TrackerDone == "TrancheTracker" \in built

\* ------------------------------------------------------------ claims

\* C1: after a replay every lot has sharesSold <= sharesBought: no RemShr
\* cell of Transactions and no TrancheState row shows a negative number
\* of remaining shares (an over-selling log would have been rejected).
C1_NoLotOverSold ==
  /\ MetricsDone => \A i \in TradeIdx : metrics[i].remShr >= 0
  /\ StateDone =>
       \A id \in DOMAIN stateOut :
         /\ stateOut[id].ShSold <= stateOut[id].ShBuy
         /\ stateOut[id].ShRem >= 0

\* C2: for every Dividend row with a lot of its symbol holding shares on
\* the dividend date, the Inc values of the TrancheTracker rows built
\* from it sum to the Inc value of the dividend row.
C2_TrackerIncomeIsPartition ==
  TrackerDone =>
    \A d \in DivIdx :
      OpenLotsAt(raw[d].sym, raw[d].date) # {} =>
        RSumOver([k \in TrackerIdx(d) |-> tracker[k].inc], TrackerIdx(d))
          = metrics[d].inc

\* C3: for every Dividend row with an open lot, each open lot of the
\* symbol is credited ROCAmt * remaining(lot) / (remaining of all open
\* lots), and the credits of the row sum to its ROCAmt.
C3_RocProRataByRemaining ==
  StateDone =>
    \A d \in DivIdx :
      LET open  == OpenLotsAt(raw[d].sym, raw[d].date)
          total == SumOver([id \in open |-> RemAsOf(id, raw[d].date)], open)
          paid  == DOMAIN rocCredit[d]
      IN  open # {} =>
            /\ \A id \in open :
                 CreditOf(d, id) =
                   RMul(metrics[d].rocAmt, Rat(RemAsOf(id, raw[d].date), total))
            /\ RSumOver([id \in paid |-> rocCredit[d][id].roc], paid)
                 = metrics[d].rocAmt

\* C4: the remaining shares a lot contributes to a Dividend dated D are
\* its Buys dated <= D less its Sells dated <= D, whatever the row order.
C4_RemainingAsOfDividendDate ==
  /\ StateDone =>
       \A d \in DivIdx : \A id \in LotIds :
         LotHasSym(id, raw[d].sym) =>
           UsedRem(d, id) =
             (IF RemAsOf(id, raw[d].date) > 0
              THEN RemAsOf(id, raw[d].date) ELSE 0)
  /\ TrackerDone =>
       \A k \in 1..Len(tracker) :
         tracker[k].remShr = RemAsOf(tracker[k].trID, tracker[k].distDt)

\* the Sells dated <= day have brought lot id down to exactly 0 shares
ClosedBy(id, day) ==
  \E d0 \in {raw[i].date : i \in RowIdx} :
    /\ d0 <= day
    /\ SoldAsOf(id, d0) > 0
    /\ RemAsOf(id, d0) = 0

\* C5: a lot that Sells dated <= D have brought to 0 shares gets no ROC
\* credit and no TrancheTracker row from a Dividend of its symbol dated D
\* or later.
C5_ClosedLotGetsNothing ==
  MetricsDone =>
    \A d \in DivIdx : \A id \in LotIds :
      (LotHasSym(id, raw[d].sym) /\ ClosedBy(id, raw[d].date)) =>
        /\ StateDone => CreditOf(d, id) = Zero
        /\ TrackerDone => \A k \in TrackerIdx(d) : tracker[k].trID # id

\* status as the data model defines it from remaining and bought shares
SpecStatus(rem, bought) ==
  IF rem = 0 THEN "Closed"
  ELSE IF 0 < rem /\ rem < bought THEN "Partial"
  ELSE "Open"

\* C6: every reported status is Closed exactly when remaining = 0,
\* Partial exactly when 0 < remaining < bought, Open otherwise, and the
\* remaining shares of a lot with a status lie in 0..bought.
C6_StatusFollowsRemaining ==
  /\ StateDone =>
       \A id \in DOMAIN stateOut :
         LET o == stateOut[id]
         IN  /\ o.ShRem = o.ShBuy - o.ShSold
             /\ o.ShRem \in 0..o.ShBuy
             /\ o.Status = SpecStatus(o.ShRem, o.ShBuy)
  /\ MetricsDone =>
       \A i \in TradeIdx :
         LET bought == LotBought(metrics[i].trID)
         IN  /\ metrics[i].remShr \in 0..bought
             /\ metrics[i].tStat = SpecStatus(metrics[i].remShr, bought)

StatusRank(s) == IF s = "Open" THEN 0 ELSE IF s = "Partial" THEN 1 ELSE 2

\* C7: along the ledger order of the Buy/Sell rows of one lot the status
\* written on the rows never moves back (Open, Partial, Closed), and a
\* Sell row never shows more remaining shares than an earlier row.
C7_StatusNeverMovesBack ==
  MetricsDone =>
    \A i \in TradeIdx : \A j \in TradeIdx :
      (metrics[i].trID = metrics[j].trID /\ LedgerBefore(i, j)) =>
        /\ StatusRank(metrics[i].tStat) <= StatusRank(metrics[j].tStat)
        /\ raw[j].type = "sell" => metrics[j].remShr <= metrics[i].remShr

\* the lot id of Sell row i was created by a Buy earlier in ledger order
HasPriorBuy(i) ==
  \E j \in BuyIdx(metrics[i].trID) : LedgerBefore(j, i)

\* C8: a replay that ran to its end met no Sell whose lot id had not
\* been created by a prior Buy (such a Sell raises UnknownLotError; it
\* is not skipped and gets no id of its own).
C8_UnknownLotSellRejected ==
  (MetricsDone \/ StateDone) =>
    \A i \in RowIdx : raw[i].type = "sell" => HasPriorBuy(i)

\* C9: a lot built from several Buy rows has the sum of their shares as
\* ShBuy, the sum of shares * price as CostBasis and the earliest of
\* their dates as BuyDt.
C9_BuysAccumulate ==
  StateDone =>
    \A id \in DOMAIN stateOut :
      /\ stateOut[id].ShBuy = LotBought(id)
      /\ stateOut[id].CostBasis = LotCost(id)
      /\ stateOut[id].BuyDt = LotFirstBuy(id)

\* position of Buy row i among the no-override Buy rows of its symbol
\* and day
BuysBefore(i) ==
  Cardinality({j \in 1..(i - 1) :
                 /\ raw[j].type = "buy"
                 /\ raw[j].ov = NoId
                 /\ raw[j].sym = raw[i].sym
                 /\ raw[j].date = raw[i].date})

\* C10: a no-override Buy row gets the id symbol_yyMMdd_L with L the
\* letter of its position among the no-override Buys of its symbol and
\* day, so no two such Buys share an id and Sell rows play no part.
C10_BuyLetterCountsBuysOnly ==
  MetricsDone =>
    \A i \in RowIdx :
      (raw[i].type = "buy" /\ raw[i].ov = NoId) =>
        /\ metrics[i].trID =
             <<raw[i].sym, FormatYYMMDD(raw[i].date), LetterOf(BuysBefore(i))>>
        /\ \A j \in RowIdx \ {i} :
             (raw[j].type = "buy" /\ raw[j].ov = NoId) =>
               metrics[j].trID # metrics[i].trID

\* C11: a Dividend row whose symbol has no lot holding shares on the
\* dividend date credits ROC to no lot, and buildTrancheState reports the
\* row as an unallocated dividend.
C11_UnallocatedDividendRecorded ==
  StateDone =>
    \A d \in DivIdx :
      OpenLotsAt(raw[d].sym, raw[d].date) = {} =>
        /\ \A id \in DOMAIN stateOut : CreditOf(d, id) = Zero
        /\ d \in unallocated

\* the ROC the Dividend rows credited to lot id, one credit per row
RocCredited(id) == RSumOver([d \in DivIdx |-> CreditOf(d, id)], DivIdx)

\* lot id is the only lot of its symbol, was bought as in the worked
\* example, and was paid by one dividend only: the example's, on all of
\* its 100 shares
IsExampleLot(id) ==
  /\ stateOut[id].ShBuy = 100 /\ stateOut[id].BuyPx = 10
  /\ \A k \in DOMAIN stateOut : stateOut[k].Sym = stateOut[id].Sym => k = id
  /\ \E d \in DivIdx :
       /\ raw[d] = ExampleDividend
       /\ UsedRem(d, id) = 100
       /\ \A e \in DivIdx \ {d} : id \notin DOMAIN rocCredit[e]

\* C12: every TrancheState row has AdjBasis = CostBasis - (the sum of the
\* ROC the dividends credited to the lot); the lot of the worked example
\* ends with cumulative ROC 20 and AdjBasis 980.
C12_AdjustedBasisIsCostLessRoc ==
  StateDone =>
    \A id \in DOMAIN stateOut :
      /\ stateOut[id].AdjBasis =
           RSub(RInt(stateOut[id].CostBasis), RocCredited(id))
      /\ IsExampleLot(id) =>
           /\ stateOut[id].ConBasis = RInt(20)
           /\ stateOut[id].AdjBasis = RInt(980)

\* a snapshot holding the example lot
C12_Witness ==
  /\ StateDone
  /\ \E id \in DOMAIN stateOut :
       /\ IsExampleLot(id)
       /\ stateOut[id].CostBasis = 1000

\* C13: a TrancheState row with CostBasis 0 has ConBasisPct 0 whatever
\* ROC the lot was credited; any other row has ConBasisPct = ConBasis /
\* CostBasis.
C13_ConsumedRatioGuardsZeroCost ==
  StateDone =>
    \A id \in DOMAIN stateOut :
      stateOut[id].ConBasisPct =
        IF stateOut[id].CostBasis = 0 THEN Zero
        ELSE RDiv(stateOut[id].ConBasis, RInt(stateOut[id].CostBasis))

\* a lot bought at price 0 that was credited ROC
C13_Witness ==
  /\ StateDone
  /\ \E id \in DOMAIN stateOut :
       /\ stateOut[id].CostBasis = 0
       /\ stateOut[id].ShBuy > 0
       /\ RPos(stateOut[id].ConBasis)
       /\ stateOut[id].ConBasisPct = Zero

\* ------------------------------------------------ IncomeTracker claims
IncomeDone == "IncomeTracker" \in built
IncomeIdx  == 1..Len(income)

RLeq(a, b) == ~RPos(RSub(a, b))

\* rows j and k are of weeks that start in the same calendar year
SameYear(j, k) == YearOf(income[j].Wk) = YearOf(income[k].Wk)
SameYearSym(j, k) == SameYear(j, k) /\ income[j].Sym = income[k].Sym

\* the year-to-date columns do not decrease from row j to the later row k
YtdMonotone ==
  \A j \in IncomeIdx : \A k \in IncomeIdx :
    j < k =>
      /\ SameYearSym(j, k) =>
           /\ RLeq(income[j].DistYTD, income[k].DistYTD)
           /\ RLeq(income[j].IncYTD, income[k].IncYTD)
           /\ RLeq(income[j].RocYTD, income[k].RocYTD)
      /\ SameYear(j, k) =>
           /\ RLeq(income[j].DistYtdAll, income[k].DistYtdAll)
           /\ RLeq(income[j].IncYtdAll, income[k].IncYtdAll)
           /\ RLeq(income[j].RocYtdAll, income[k].RocYtdAll)

\* every Dividend row has Dist >= 0 and a RocPct cell between 0 and 1
DividendsInRange ==
  \A d \in DivIdx :
    /\ raw[d].dist >= 0
    /\ RLeq(Zero, raw[d].pct) /\ RLeq(raw[d].pct, RInt(1))

\* C14: in IncomeTracker the YTD-by-symbol columns never decrease
\* between rows of the same (year, symbol) and the YTD-all columns never
\* decrease between rows of the same year.
C14_YtdNeverDecreases == IncomeDone => YtdMonotone

\* the scripts run at UTC or east of it
AtOrEastOfUtc == zone \notin WestOfUtc

\* The running sums do not decrease on the logs in which every Dividend
\* row has Dist >= 0 and RocPct between 0 and 1, where the scripts do not
\* run west of UTC.
YtdMonotoneInRange ==
  (IncomeDone /\ DividendsInRange /\ AtOrEastOfUtc) => YtdMonotone

\* C15: the first row of a calendar year has each YTD-all column equal to
\* its own per-group amount, and the first row of a (calendar year,
\* symbol) has each YTD-by-symbol column equal to its own amount: nothing
\* of an earlier year is carried in.
C15_YtdRestartsEachYear ==
  IncomeDone =>
    \A k \in IncomeIdx :
      /\ (\A j \in 1..(k - 1) : ~SameYear(j, k)) =>
           /\ income[k].DistYtdAll = income[k].Dist
           /\ income[k].IncYtdAll = income[k].Inc
           /\ income[k].RocYtdAll = income[k].Roc
      /\ (\A j \in 1..(k - 1) : ~SameYearSym(j, k)) =>
           /\ income[k].DistYTD = income[k].Dist
           /\ income[k].IncYTD = income[k].Inc
           /\ income[k].RocYTD = income[k].Roc

\* C15 holds where the scripts do not run west of UTC: the year of a
\* group is then the calendar year of its WkStart cell.
YtdRestartsAtUtc == AtOrEastOfUtc => C15_YtdRestartsEachYear

\* a row that opens 2025 after a row of the same symbol in 2024
YearOpenedReached ==
  /\ IncomeDone
  /\ \E j \in IncomeIdx : \E k \in IncomeIdx :
       /\ j < k /\ income[j].Sym = income[k].Sym
       /\ YearOf(income[j].Wk) = 2024 /\ YearOf(income[k].Wk) = 2025
       /\ RPos(income[j].Roc) /\ RPos(income[k].Roc)
       /\ income[k].RocYTD = income[k].Roc
       /\ income[k].DistYtdAll = income[k].Dist

\* the rows of the week of row k
WeekRows(k) == {j \in IncomeIdx : income[j].Wk = income[k].Wk}

\* C20: each IncomeTracker row carries, for distribution, taxable income
\* and ROC, the sum of the per-group amounts of all rows of its week (so
\* the rows of a week carry the same totals).
C20_WeekTotalsAreWeekSums ==
  IncomeDone =>
    \A k \in IncomeIdx :
      /\ income[k].DistWkTot =
           RSumOver([j \in WeekRows(k) |-> income[j].Dist], WeekRows(k))
      /\ income[k].IncWkTot =
           RSumOver([j \in WeekRows(k) |-> income[j].Inc], WeekRows(k))
      /\ income[k].RocWkTot =
           RSumOver([j \in WeekRows(k) |-> income[j].Roc], WeekRows(k))

\* a week with two symbols, next to another week
C20_Witness ==
  /\ IncomeDone
  /\ \E j \in IncomeIdx : \E k \in IncomeIdx : \E n \in IncomeIdx :
       /\ j # k /\ income[j].Wk = income[k].Wk /\ income[n].Wk # income[k].Wk
       /\ RPos(income[j].Roc) /\ RPos(income[k].Inc)
       /\ income[j].IncWkTot = income[k].IncWkTot
       /\ income[k].DistWkTot = RAdd(income[j].Dist, income[k].Dist)

\* ------------------------------------------------------ rerun claims
\* a step that runs a script of the second or a later round: the log is
\* the one the script has processed in the round before
IsRerun == runs >= ScriptsPerRound /\ runs' = runs + 1

\* TrancheState without the two columns counted from the day of the run
Timeless(out) ==
  [id \in DOMAIN out |->
     [f \in DOMAIN out[id] \ {"HeldDays", "LTGDays"} |-> out[id][f]]]

\* C16: running the four scripts again on an unchanged log leaves the
\* Transactions, TrancheTracker, IncomeTracker and TrancheState contents as
\* they were; no output cell depends on the time of the run.
C16_RerunChangesNothing ==
  [][IsRerun =>
       UNCHANGED <<metrics, headers, tracker, income, stateOut>>]_vars

\* what does hold of a rerun.  On a log with a valid date in its first row
\* Transactions, TrancheTracker and IncomeTracker stay as they were, and
\* TrancheState too but for HeldDays and LTGDays, which count days up to
\* the day of the run.  On a log without such a row only the header row of
\* Transactions changes: it gains a spacer column with every run.
RerunChangesDayCountsAndSpacers ==
  [][IsRerun =>
       /\ UNCHANGED <<metrics, tracker, income>>
       /\ CollectRows(raw) # <<>> => UNCHANGED headers
       /\ CollectRows(raw) = <<>> =>
            headers' \in {headers, SpacerInserted(headers)}
       /\ Timeless(stateOut') = Timeless(stateOut)
       /\ NextScript(runs) = "buildTrancheState" =>
            \A id \in DOMAIN stateOut' :
              stateOut'[id].HeldDays = today - stateOut'[id].BuyDt]_vars

\* two rounds have been run, the last script on a later day than the
\* first, with rows on every output sheet
TwoRoundsReached ==
  /\ runs = ScriptsPerRound * MaxRuns
  /\ today > Today0
  /\ tracker # <<>> /\ income # <<>> /\ DOMAIN stateOut # {}
  /\ \E id \in DOMAIN stateOut :
       stateOut[id].HeldDays = today - stateOut[id].BuyDt

\* two rounds have been run on an empty Transactions sheet
TwoSpacersReached ==
  /\ runs = ScriptsPerRound * MaxRuns
  /\ raw = <<>>
  /\ SpacerCount(headers) = 2

\* ------------------------------------------------------ schema claims
\* the sheets a script must leave alone when it throws on a missing column
TransactionsSheet == <<raw, metrics, headers>>

\* C17: a script that finds a required column missing throws before it has
\* changed anything: its own output sheet and the Transactions sheet are
\* after the run what they were before it.
C17_MissingColumnChangesNothing ==
  [][/\ (BuildTrancheState /\ ~HasAll(headers, StateHeaders)) =>
          UNCHANGED <<stateOut, TransactionsSheet>>
     /\ (BuildTrancheTracker /\ ~HasAll(headers, TrackerHeaders)) =>
          UNCHANGED <<tracker, TransactionsSheet>>
     /\ (BuildIncomeTracker /\ ~HasAll(headers, IncomeHeaders)) =>
          UNCHANGED <<income, TransactionsSheet>>
     /\ (UpdateHistoricalTrancheMetrics /\ ~HasAll(headers, MetricsHeaders)) =>
          UNCHANGED TransactionsSheet]_vars

\* ------------------------------------------------- dividend claims
\* C18: replaying a Dividend row creates no lot and leaves every lot's
\* sharesBought, sharesSold, purchase price (hence costBasis), buy date and
\* last sale as they were; the only change is to the cumulative ROC of
\* lots of the dividend's symbol.
C18_DividendTouchesOnlyRoc ==
  StateDone =>
    \A d \in DivIdx :
      LET before == lotTrace[d - 1]
          after  == lotTrace[d]
      IN  /\ DOMAIN after.tranche = DOMAIN before.tranche
          /\ after.tranche = before.tranche
          /\ after.latestSale = before.latestSale
          /\ \A id \in DOMAIN after.roc :
               after.roc[id] # before.roc[id] =>
                 before.tranche[id].Symbol = raw[d].sym

\* a dividend that raised the ROC of a lot of its symbol and left alone
\* a lot of another symbol that held shares
C18_Witness ==
  /\ StateDone
  /\ \E d \in DivIdx : \E id \in DOMAIN stateOut : \E other \in DOMAIN stateOut :
       /\ RPos(RSub(lotTrace[d].roc[id], lotTrace[d - 1].roc[id]))
       /\ stateOut[other].Sym # raw[d].sym
       /\ stateOut[other].ShRem > 0
       /\ lotTrace[d].roc[other] = lotTrace[d - 1].roc[other]

\* the ROC a Dividend row handed out, over all lots it paid
RocHandedOut(d) ==
  RSumOver([id \in DOMAIN rocCredit[d] |-> rocCredit[d][id].roc],
           DOMAIN rocCredit[d])

\* C19: the ROC total of a Dividend row that paid lots is its ROCAmt when
\* the row carries one, and otherwise RocPct x Dist, with Dist the total
\* of the distribution and RocPct on the 0-1 scale on which
\* updateHistoricalTrancheMetrics reads it.
C19_RocTotalOnOneScale ==
  StateDone =>
    \A d \in DivIdx :
      DOMAIN rocCredit[d] # {} =>
        RocHandedOut(d) =
          IF RPos(metrics[d].rocAmt) THEN metrics[d].rocAmt
          ELSE RMul(raw[d].pct, RInt(raw[d].dist))

\* ------------------------------------------- income tracker contents
\* the rows up to row k that are of the year of row k, and those that are
\* also of its symbol
YearRowsUpTo(k)    == {j \in 1..k : SameYear(j, k)}
YearSymRowsUpTo(k) == {j \in 1..k : SameYearSym(j, k)}

\* C21: IncomeTracker rows come in non-decreasing week order; on every
\* row each YTD-by-symbol column is the sum of the per-group amounts of
\* that row and the earlier rows of the same (year, symbol), and each
\* YTD-all column is the sum over that row and the earlier rows of the
\* same year.
C21_YtdIsRunningSumInWeekOrder ==
  IncomeDone =>
    /\ \A j \in IncomeIdx : \A k \in IncomeIdx :
         j < k => income[j].Wk <= income[k].Wk
    /\ \A k \in IncomeIdx :
         LET ys == YearSymRowsUpTo(k)
             ya == YearRowsUpTo(k)
         IN  /\ income[k].DistYTD = RSumOver([j \in ys |-> income[j].Dist], ys)
             /\ income[k].IncYTD  = RSumOver([j \in ys |-> income[j].Inc], ys)
             /\ income[k].RocYTD  = RSumOver([j \in ys |-> income[j].Roc], ys)
             /\ income[k].DistYtdAll =
                  RSumOver([j \in ya |-> income[j].Dist], ya)
             /\ income[k].IncYtdAll =
                  RSumOver([j \in ya |-> income[j].Inc], ya)
             /\ income[k].RocYtdAll =
                  RSumOver([j \in ya |-> income[j].Roc], ya)

\* C21 holds where the scripts do not run west of UTC
YtdIsRunningSumAtUtc == AtOrEastOfUtc => C21_YtdIsRunningSumInWeekOrder

\* a log whose Dividend rows are entered latest week first, giving three
\* rows of one year of which the last two are of one symbol
YtdRunningSumReached ==
  /\ IncomeDone
  /\ Len(income) = 3
  /\ \E a \in DivIdx : \E b \in DivIdx : a < b /\ raw[a].date > raw[b].date
  /\ SameYear(1, 3) /\ SameYearSym(2, 3) /\ ~SameYearSym(1, 3)
  /\ income[1].Wk < income[3].Wk
  /\ income[3].DistYTD = RAdd(income[2].Dist, income[3].Dist)
  /\ income[3].DistYtdAll = RInt(12)

\* Dividend rows of two symbols on two days of the week of 2024-01-01 and
\* on 2024-01-08, with RocPct 0.5, and one Buy row.
GroupDates == {1, 3, 8}

GroupRows ==
  {Row("dividend", d, s, 0, 0, di, Rat(1, 2), NoId) :
     d \in GroupDates, s \in Syms, di \in Dists}
  \cup {Row("buy", 1, "ABC", 1, MaxPrice, 0, Zero, NoId)}

NextGroups ==
  \/ SetTimeZone
  \/ SetSpreadsheetTimeZone
  \/ AddRow(GroupRows)
  \/ UpdateHistoricalTrancheMetrics
  \/ BuildIncomeTracker

SpecGroups == Init /\ [][NextGroups]_vars

\* the (week start, symbol) pair of Dividend row d, the Dividend rows of
\* the pair of IncomeTracker row k, and the groups of step 8
PairOf(d)     == <<WkStartOf(raw[d].date), raw[d].sym>>
DivPairs      == {PairOf(d) : d \in DivIdx}
RowsOfPair(p) == {d \in DivIdx : PairOf(d) = p}
DivRowsOf(k)  == RowsOfPair(<<income[k].Wk, income[k].Sym>>)
IncomeGroups  == Aggregate(raw, metrics, 1, <<>>)

\* the sums of a pair's Dividend rows, as IncomeTracker row k shows them
GroupSumsOf(k) ==
  LET G == DivRowsOf(k)
  IN  /\ income[k].Dist = RInt(SumOver([d \in G |-> raw[d].dist], G))
      /\ income[k].Inc = RSumOver([d \in G |-> metrics[d].inc], G)
      /\ income[k].Roc = RSumOver([d \in G |-> metrics[d].rocAmt], G)
      /\ income[k].ShElig = SumOver([d \in G |-> metrics[d].totShr], G)

\* On a sheet whose dates are all valid and whose Inc cells are those the
\* rebuild wrote, IncomeTracker has exactly one row per (week start,
\* symbol) pair that has a Dividend row; the row's Dist, Inc, Roc and
\* ShElig are the sums of the Dist, Inc, ROCAmt and TotShr cells of the
\* Dividend rows of the pair, and the Dist cells of all rows add up to the
\* Dist of all Dividend rows.
GroupSumsAreExact ==
  IncomeDone =>
    /\ {<<income[k].Wk, income[k].Sym>> : k \in IncomeIdx} = DivPairs
    /\ \A j \in IncomeIdx : \A k \in IncomeIdx :
         (income[j].Wk = income[k].Wk /\ income[j].Sym = income[k].Sym)
           => j = k
    /\ \A k \in IncomeIdx : GroupSumsOf(k)
    /\ RSumOver([k \in IncomeIdx |-> income[k].Dist], IncomeIdx) =
         RInt(SumOver([d \in DivIdx |-> raw[d].dist], DivIdx))

\* two Dividend rows of one week and symbol, on different days and after
\* a Buy, summed into one IncomeTracker row
TwoDividendsInOneGroupReached ==
  /\ IncomeDone
  /\ \E k \in IncomeIdx :
       /\ Cardinality(DivRowsOf(k)) = 2
       /\ \E a \in DivRowsOf(k) : \E b \in DivRowsOf(k) :
            raw[a].date # raw[b].date
       /\ income[k].Dist = RInt(8)
       /\ RPos(income[k].Roc) /\ RPos(income[k].Inc)
       /\ income[k].ShElig = 2

\* C22: IncomeTracker has exactly one row per (week start, symbol) pair
\* that has a Dividend row; the row's Dist, Inc, Roc and ShElig are the
\* sums of the Dist, Inc, ROCAmt and TotShr cells of the Dividend rows of
\* the pair, the group carries an event count that is the number of those
\* rows, and the Dist cells of all IncomeTracker rows add up to the Dist of
\* all Dividend rows.
C22_OneRowPerWeekAndSymbol ==
  IncomeDone =>
    /\ GroupSumsAreExact
    /\ \A g \in 1..Len(IncomeGroups) :
         /\ "TrCnt" \in DOMAIN IncomeGroups[g]
         /\ IncomeGroups[g].TrCnt =
              Cardinality(
                RowsOfPair(<<IncomeGroups[g].Wk, IncomeGroups[g].Sym>>))

\* ------------------------------------------ taxable figures typed in
\* Transactions is an ordinary sheet: between two script runs the user can
\* type a taxable figure into the Inc cell of a Dividend row, and
\* buildIncomeTracker reads the cell as it finds it.
TypedIncs == {Zero, RInt(1)}

EditInc ==
  /\ pc = "ready"
  /\ \E i \in DivIdx : \E v \in TypedIncs :
       /\ metrics[i].inc # v
       /\ metrics' = [metrics EXCEPT ![i].inc = v]
  /\ UNCHANGED <<weekCall, market, clock, zone, sheetZone>>
  /\ UNCHANGED <<raw, pc, tracker, stateOut, rocCredit, built, headers,
                 today, unallocated, lotTrace, income, runs>>

\* Dividend rows of one symbol on two days of one week, with RocPct 0 and
\* 0.5
TaxableRows ==
  {Row("dividend", d, "ABC", 0, 0, di, pp, NoId) :
     d \in {1, 3}, di \in Dists, pp \in Pcts}

NextTaxable ==
  \/ SetTimeZone
  \/ SetSpreadsheetTimeZone
  \/ AddRow(TaxableRows)
  \/ UpdateHistoricalTrancheMetrics
  \/ EditInc
  \/ BuildIncomeTracker

SpecTaxable == Init /\ [][NextTaxable]_vars

\* C23: the taxable amount that buildIncomeTracker adds to a weekly
\* aggregate for a Dividend row is the figure in the row's Inc cell
\* whenever the cell holds one, an explicit 0 included: the Inc of every
\* IncomeTracker row it writes is the sum of the Inc cells of the group's
\* Dividend rows.  (After updateHistoricalTrancheMetrics every Dividend
\* row of these logs has a figure in its Inc cell.)
C23_ExplicitTaxableIsUsed ==
  [][(BuildIncomeTracker /\ HasAll(headers, IncomeHeaders)) =>
       \A k \in 1..Len(income') :
         LET G == RowsOfPair(<<income'[k].Wk, income'[k].Sym>>)
         IN  income'[k].Inc = RSumOver([d \in G |-> metrics[d].inc], G)]_vars

\* The same for the cells that do not hold 0: with no Inc cell equal to 0
\* the figures in the cells are the ones that are summed.
TaxableNonZeroIsUsed ==
  [][(/\ BuildIncomeTracker
      /\ HasAll(headers, IncomeHeaders)
      /\ \A d \in DivIdx : metrics[d].inc # Zero) =>
       \A k \in 1..Len(income') :
         LET G == RowsOfPair(<<income'[k].Wk, income'[k].Sym>>)
         IN  income'[k].Inc = RSumOver([d \in G |-> metrics[d].inc], G)]_vars

\* -------------------------------------------------- rows processed
\* row i is one of the rows updateHistoricalTrancheMetrics has processed:
\* it has been given a week start
Processed(i) == metrics[i].wkStart # NoDate

\* C24: updateHistoricalTrancheMetrics processes exactly the rows that
\* have a parsable date: a row with an unparsable date is left out and
\* every row with a valid date is processed, also when it comes after a
\* row with an unparsable date.
C24_ValidDateRowsAreProcessed ==
  MetricsDone =>
    \A i \in RowIdx : Processed(i) <=> ValidDate(raw[i].date)

\* The rows that are processed are the valid-date rows in front of the
\* first row with an unparsable date.
ProcessedIsValidPrefix ==
  MetricsDone =>
    \A i \in RowIdx :
      Processed(i) <=> \A j \in 1..i : ValidDate(raw[j].date)

\* ------------------------------------------------------ sale prices
\* One lot of ABC bought on 2024-01-01 and Sell rows that name it in
\* TIDOverride, on two days and at two prices.
SalePrices == {1, 2}

SaleRows ==
  {Row("buy", 1, "ABC", MaxShares, 1, 0, Zero, NoId)}
  \cup {Row("sell", d, "ABC", 1, px, 0, Zero, GenId("ABC", FormatYYMMDD(1), 0)) :
          d \in Dates, px \in SalePrices}

NextSales ==
  \/ AddRow(SaleRows)
  \/ UpdateHistoricalTrancheMetrics
  \/ BuildTrancheState

SpecSales == Init /\ [][NextSales]_vars

\* the Sell row of lot id that comes last when the lot's Sell rows are
\* put in ascending date order, rows of one date in sheet order
LastSell(id) ==
  CHOOSE i \in SellIdx(id) :
    \A j \in SellIdx(id) :
      raw[j].date < raw[i].date \/ (raw[j].date = raw[i].date /\ j <= i)

\* C25: for every lot with a Sell row, the sale price in TrancheState is
\* the price of the lot's last Sell by date, the later row winning among
\* Sells of one date, whatever the order of the rows in the sheet.
C25_LastSalePriceIsLatestSell ==
  StateDone =>
    \A id \in DOMAIN stateOut :
      SellIdx(id) # {} => stateOut[id].SellPx = raw[LastSell(id)].price

\* The price shown is that of the first row among the Sells of the lot's
\* latest sale date.
SalePriceIsFirstOfLatestDate ==
  StateDone =>
    \A id \in DOMAIN stateOut :
      SellIdx(id) # {} =>
        \E i \in SellIdx(id) :
          /\ stateOut[id].SellPx = raw[i].price
          /\ \A j \in SellIdx(id) :
               raw[j].date < raw[i].date \/ (raw[j].date = raw[i].date /\ i <= j)

\* ------------------------------------------------------- week starts
\* getWeekStart called on the Date of a date cell, for any day from
\* 2024-01-01 to 2025-12-31
MaxDay == 731
Monday == 1

CallGetWeekStart ==
  /\ \E d \in 1..MaxDay : weekCall' = GetWeekStartCall(DateCell(d))
  /\ UNCHANGED <<raw, pc, metrics, tracker, stateOut, rocCredit, built,
                 headers, today, unallocated, lotTrace, income, runs,
                 market, clock, zone, sheetZone>>

\* the result of the last call is handed to getWeekStart again
CallGetWeekStartAgain ==
  /\ weekCall # NoCall
  /\ weekCall' = GetWeekStartCall(weekCall.dt)
  /\ UNCHANGED <<raw, pc, metrics, tracker, stateOut, rocCredit, built,
                 headers, today, unallocated, lotTrace, income, runs,
                 market, clock, zone, sheetZone>>

NextWeek ==
  \/ SetTimeZone
  \/ SetSpreadsheetTimeZone
  \/ CallGetWeekStart
  \/ CallGetWeekStartAgain

SpecWeek == Init /\ [][NextWeek]_vars

\* the properties of one call, with the days read on the calendar of
\* zone z
WeekStartIsMonday(z) ==
  weekCall # NoCall =>
    LET d == DayIn(z, weekCall.given)
        w == DayIn(z, weekCall.dt)
    IN  /\ GetDay(w) = Monday
        /\ d - w \in 0..6
        /\ (GetDay(d) = Monday => weekCall.dt = weekCall.given)
        /\ GetWeekStartCall(weekCall.dt).dt = weekCall.dt
        /\ weekCall.dateObj = weekCall.given

\* C26: for every date d, getWeekStart(d) is a Monday, lies 0 to 6 days
\* before d and is d itself when d is a Monday; getWeekStart of the result
\* is the result again; the Date that was passed in is not modified.  The
\* weekday and the day of a Date are those getDay and getDate answer, on
\* the calendar of the script's zone, whatever the two zones are.
C26_WeekStartIsMondayOnOrBefore == WeekStartIsMonday(zone)

\* Sunday 2025-01-05 has been mapped to Monday 2024-12-30, six days
\* before it and in the year before
C26_Witness ==
  /\ weekCall # NoCall
  /\ DayIn(zone, weekCall.given) = 371
  /\ GetDay(DayIn(zone, weekCall.given)) = 0
  /\ DayIn(zone, weekCall.dt) = 365
  /\ weekCall.dateObj = weekCall.given
  /\ YearOf(DayIn(zone, weekCall.dt)) = 2024
  /\ YearOf(DayIn(zone, weekCall.given)) = 2025

\* The WkStart cell shows the result on the calendar of the spreadsheet's
\* zone: where the script's zone is that of the spreadsheet, the cell
\* shows the Monday on or before the date cell.
WkStartCellIsMondayInOneZone ==
  zone = sheetZone => WeekStartIsMonday(sheetZone)

\* the script runs west of the spreadsheet's zone: the date cell of Monday
\* 2024-01-01 is the evening of Sunday for the script, and the WkStart
\* cell shows Tuesday 2023-12-26
MondayCellMappedToTuesday ==
  /\ weekCall # NoCall
  /\ SheetDay(weekCall.given) = 1
  /\ SheetDay(weekCall.dt) = -5
  /\ GetDay(DayIn(zone, weekCall.given)) = 0
  /\ GetDay(DayIn(zone, weekCall.dt)) = Monday

\* --------------------------------------------- the year of a dividend
\* the IncomeTracker row that carries Dividend row d
RowOfDiv(d) ==
  CHOOSE k \in IncomeIdx :
    income[k].Wk = WkStartOf(raw[d].date) /\ income[k].Sym = raw[d].sym

\* the Dividend rows dated in the calendar year of Dividend row d that are
\* carried by the IncomeTracker rows up to row k
SameDateYearUpTo(d, k) ==
  {e \in DivIdx : YearOf(raw[e].date) = YearOf(raw[d].date) /\ RowOfDiv(e) <= k}

\* C27: every Dividend counts towards the YTD totals of the calendar year
\* of its own date: on the row that carries it, the YTD distribution is
\* the distribution of the dividends dated in that year so far (for
\* YTD-by-symbol those of its symbol), also when its week started in the
\* December before.
C27_DividendCountsInItsOwnYear ==
  IncomeDone =>
    \A d \in DivIdx :
      LET k  == RowOfDiv(d)
          ya == SameDateYearUpTo(d, k)
          ys == {e \in ya : raw[e].sym = raw[d].sym}
      IN  /\ income[k].DistYtdAll = RInt(SumOver([e \in ya |-> raw[e].dist], ya))
          /\ income[k].DistYTD = RInt(SumOver([e \in ys |-> raw[e].dist], ys))

\* ------------------------------------------------ running share total
\* the lots of symbol s and the shares they hold as of day
LotsOfSym(s) == {id \in LotIds : LotHasSym(id, s)}
HeldAsOf(s, day) ==
  SumOver([id \in LotsOfSym(s) |-> RemAsOf(id, day)], LotsOfSym(s))

\* C28: at every Dividend row the running share total TotShr of the
\* symbol is the sum of the remaining shares of the symbol's lots as of
\* the dividend, so the per-share distribution times those shares gives
\* back the Dist of the row.
C28_TotShrIsLotsRemaining ==
  MetricsDone =>
    \A d \in DivIdx :
      LET held == HeldAsOf(raw[d].sym, raw[d].date)
      IN  /\ metrics[d].totShr = held
          /\ held # 0 => RMul(metrics[d].distPS, RInt(held)) = RInt(raw[d].dist)

\* a log in which the rows above a Dividend row are the trades dated up to
\* its date, every Sell names a lot, and a lot has one symbol
TradesInOrder ==
  /\ \A d \in DivIdx : \A i \in TradeIdx : i < d <=> raw[i].date <= raw[d].date
  /\ \A i \in TradeIdx : metrics[i].trID \in LotIds
  /\ \A i \in TradeIdx : \A j \in TradeIdx :
       metrics[i].trID = metrics[j].trID => raw[i].sym = raw[j].sym

\* On such logs TotShr is the shares the symbol's lots hold.
TotShrOnOrderedLogs ==
  (MetricsDone /\ TradesInOrder) =>
    \A d \in DivIdx : metrics[d].totShr = HeldAsOf(raw[d].sym, raw[d].date)

\* ------------------------------------------------ the two replays
\* the Buy and Sell rows of lot id, and those of its latest date
RowsOfLot(id) == {i \in TradeIdx : metrics[i].trID = id}
LatestRowsOfLot(id) ==
  {i \in RowsOfLot(id) : \A j \in RowsOfLot(id) : raw[j].date <= raw[i].date}

\* C29: for every lot id in TrancheState, the remaining shares and the
\* status shown there are the RemShr and TStat cells that
\* updateHistoricalTrancheMetrics wrote on the latest-dated Buy or Sell
\* row of the lot, for any log.
C29_ReplaysAgree ==
  StateDone =>
    \A id \in DOMAIN stateOut : \A i \in LatestRowsOfLot(id) :
      /\ stateOut[id].ShRem = metrics[i].remShr
      /\ stateOut[id].Status = metrics[i].tStat

\* The two replays agree on the lots that have a single Buy row.
ReplaysAgreeOnSingleBuyLots ==
  StateDone =>
    \A id \in DOMAIN stateOut : \A i \in LatestRowsOfLot(id) :
      Cardinality(BuyIdx(id)) = 1 =>
        /\ stateOut[id].ShRem = metrics[i].remShr
        /\ stateOut[id].Status = metrics[i].tStat

\* ------------------------------------------------------ price updates
\* the runs of checkPriceUpdates that are followed
MaxClock == 3

\* what the user (or a price formula) puts into a CurrentPrice cell
PriceCells == {Blank, 1, 2}

EditPrice ==
  /\ \E i \in DOMAIN market : \E v \in PriceCells :
       /\ v # market[i].cur
       /\ market' = [market EXCEPT ![i].cur = v]
  /\ UNCHANGED <<raw, pc, metrics, tracker, stateOut, rocCredit, built,
                 headers, today, unallocated, lotTrace, income, runs,
                 weekCall, clock, zone, sheetZone>>

\* one run: `now` is an instant later than that of any earlier run
CheckPriceUpdates ==
  /\ clock < MaxClock
  /\ clock' = clock + 1
  /\ market' = [i \in DOMAIN market |-> CheckedRow(market[i], clock + 1)]
  /\ UNCHANGED <<raw, pc, metrics, tracker, stateOut, rocCredit, built,
                 headers, today, unallocated, lotTrace, income, runs,
                 weekCall, zone, sheetZone>>

NextPrices ==
  \/ EditPrice
  \/ CheckPriceUpdates

SpecPrices == Init /\ [][NextPrices]_vars

\* the CurrentPrice of the row is not empty and differs from the price
\* stored for it
PriceChanged(row) == row.cur # Blank /\ row.cur # row.prev

\* C30: a run of checkPriceUpdates stamps LastUpdate with the time of the
\* run on exactly the rows whose CurrentPrice is not empty and differs
\* from the stored price, and stores the price there; it leaves the other
\* rows as they are; after it the stored price of every row with a price
\* is that price; a second run straight after it would change nothing.
C30_StampsExactlyChangedPrices ==
  [][CheckPriceUpdates =>
       /\ \A i \in DOMAIN market :
            /\ PriceChanged(market[i]) =>
                 /\ market'[i].last = clock'
                 /\ market'[i].last # market[i].last
                 /\ market'[i].prev = market[i].cur
            /\ ~PriceChanged(market[i]) => market'[i] = market[i]
            /\ market'[i].cur = market[i].cur
            /\ market'[i].cur # Blank => market'[i].prev = market'[i].cur
       /\ \A i \in DOMAIN market : ~PriceChanged(market'[i])
       /\ (\A i \in DOMAIN market : ~PriceChanged(market[i])) =>
            market' = market]_vars

\* after two runs: a row stamped by the latest run next to a row that has
\* a price and still carries the stamp of the run before
C30_Witness ==
  /\ clock >= 2
  /\ \E i \in DOMAIN market : \E j \in DOMAIN market :
       /\ market[i].last = clock /\ market[i].prev = market[i].cur
       /\ market[j].cur # Blank /\ market[j].prev = market[j].cur
       /\ market[j].last # Blank /\ market[j].last < clock

====
